---- MODULE Spec2Model ----
(***************************************************************************)
(* Verification model of pi-dashboard (server/index.js, server/stats.js,   *)
(* server/services-config.js).                                             *)
(*                                                                         *)
(* The module holds several specifications over one set of variables:      *)
(*   SpecProbe  - one service health probe (checkService and the five      *)
(*                check*Service functions) with its callbacks and timers;  *)
(*   SpecCache  - the CPU delta cache, its sweep and the container pass of *)
(*                two overlapping polls;                                   *)
(*   SpecRetention - both delta caches and the sweep;                      *)
(*   SpecSystem - the GET /api/v1/system fan-out;                          *)
(*   SpecWireGuard - the WireGuard settings update and the VPN poll;       *)
(*   SpecContainers - the container pass of one poll with its statsMap;    *)
(*   SpecParse  - parseWgShow on any status text;                          *)
(*   SpecClients - the client list getWireGuardData builds from the status *)
(*                text and the pivpn client list;                          *)
(*   SpecDiscover - discoverServices on any socket tables;                 *)
(*   SpecHandshake - parseHandshakeTime on any handshake text;             *)
(*   SpecTransfer - the transfer line of parseWgShow on any transfer text; *)
(*   SpecApi    - the API key routes and the key check of /api/v1/system;  *)
(*   SpecRate   - the rate limit middleware of the /api routes;            *)
(*   SpecNetwork - getHostNetworkStats over polls of /proc/net/dev;        *)
(*   SpecSnapshot - the containers of one getSystemStats snapshot;         *)
(*   SpecLock, SpecLockFair - withFileLock with concurrent callers;        *)
(*   SpecDashboard - the refresh timer of the dashboard page.              *)
(* Each specification leaves the variables of the others at their idle     *)
(* values.                                                                 *)
(***************************************************************************)
EXTENDS Integers, Sequences, FiniteSets, TLC

VARIABLES
    \* ---- probe (index.js 215-380) ----
    service,      \* the descriptor handed to checkService
    promise,      \* the promise returned by checkService
    timeout,      \* the probe's setTimeout(..., 3000) handle
    conn,         \* the socket / request / resolver query the probe opened
    phase,        \* how far the peer has got
    sockTimer,    \* the http request's socket idle timeout (option timeout: 3000)
    idleSince,    \* elapsed time of the last socket activity (http)
    elapsed,      \* Date.now() - start, in ms
    deliveries,   \* how often the awaiting caller was handed a result
    cbCount,      \* how many callbacks of the probe have called resolve
    firstCb,      \* which callback called resolve first
    firstResult,  \* the value the first callback passed to resolve
    lastArg,      \* the value the latest callback passed to resolve
    received,     \* what the peer's reply carried, Null while none has arrived
    \* ---- delta caches (stats.js 98-114, 477-564, 667-723) ----
    nowMs,        \* Date.now()
    cpuCache,     \* the entries of the cpuCache map: [id, usageUsec, timeUsec]
    networkCache, \* [lastStats : entries [iface, rxBytes, txBytes], lastTime]
    pollPc,       \* per request: where its getDockerContainerStats stands
    pollTodo,     \* per request: the containers its loop has still to visit
    lastCall,     \* the latest calculateCpuPercent call: what it read and wrote
    lastRecorded, \* per container: the sample recorded last, if any
    evicted,      \* per container: the sweep deleted its entry since that recording
    statsMap,     \* the entries of the followed request's statsMap
    lastVisit,    \* what the followed request's latest loop iteration met
    \* ---- GET /api/v1/system (index.js 446-499, stats.js 755-868) ----
    branch,       \* per fan-out branch of the request: how far it has got
    parts,        \* what the settled branches contribute to the snapshot
    response,     \* what the request was answered with
    \* ---- WireGuard settings and VPN poll (index.js 640-717, 756-782) ----
    wireguard,    \* the wireguard section of settings.json, Null when absent
    execLog,      \* every command handed to execAsync so far
    lastPoll,     \* the latest getWireGuardData call: name, result, commands
    \* ---- wg show status text (index.js 505-613) ----
    wgOutput,     \* the stdout of `wg show`, as its lines
    wgData,       \* what parseWgShow returned for it, NoWgData before the call
    pivpnOutput,  \* the stdout of `pivpn -l`, as its lines
    clients,      \* the sorted client list, Null before it is built
    \* ---- service discovery (stats.js 116-230) ----
    tcpOutput,    \* what `ss -tlnp` printed, as its lines; Null when it failed
    udpOutput,    \* what `ss -ulnp` printed, as its lines; Null when it failed
    discovered,   \* what discoverServices returned, Null before the call
    \* ---- handshake and transfer texts (index.js 506-526, 585-603) ----
    handshakeStr, \* the text after `latest handshake:`, as its words
    totalSeconds, \* what parseHandshakeTime returned for it
    transferStr,  \* the text after `transfer:`, as its two clauses
    transfer,     \* the peer's transfer counts after the line, Null before
    \* ---- API key (index.js 176-208, 854-908) ----
    api,          \* the api section of settings.json, Null when absent
    defaultApi,   \* DEFAULT_SETTINGS.api, the object every load without an
                  \* api section hands out
    putApi,       \* the PUT /api/settings/api request past its locked section
    generated,    \* how many keys generateApiKey has returned
    apiResponse,  \* the latest response sent by one of the API key routes
    shown,        \* per generated key, how many responses carried it
    \* ---- rate limit of /api/services/config (index.js 400-439) ----
    rateNow,      \* Date.now() at the latest request
    rateLimit,    \* per client IP, how many kept timestamps the Map holds for each time
    made,         \* per client IP, how many non-GET requests it has sent
    passedAt,     \* per client IP and time, how many requests went on to the handlers
    rateResponse, \* what the middleware did with the latest request
    \* ---- host network rates (stats.js 667-723) ----
    netStats,     \* the list the latest getHostNetworkStats returned, per interface
    lastSeen,     \* per interface, the counters and the time of its latest sample
    \* ---- container snapshot (stats.js 501-564, 795-818) ----
    inventory,    \* the ids si.dockerContainers listed, Null before the call
    ownStats,     \* per listed id, what the loop body computed from its own process and cgroup
    containers,   \* the containers of the snapshot with their stats, Null before the map
    \* ---- file lock (index.js 111-126) ----
    lockPromise,  \* the caller whose acquire promise is the current lockPromise, Null for the resolved start value
    previousLock, \* per caller, the lockPromise it awaits
    lockPc,       \* per caller, where its withFileLock call stands
    released,     \* per caller, whether release() has resolved its acquire promise
    settingsFile, \* the callers whose update the settings file holds
    loadedCopy,   \* per caller, the file content its function read
    fnThrew,      \* per caller, whether its function threw or rejected
    lockResult,   \* per caller, how the promise of withFileLock settled
    callOrder,    \* the callers in the order of their withFileLock calls
    startOrder,   \* the callers in the order their functions started
    \* ---- dashboard page timers (stats.js 1851-1911, 2018-2040, 2569-2598) ----
    timers,       \* the active updateDashboard interval timers, each with its handle and delay
    updateIntervalId,\* Null or the handle the variable holds
    timerCount,   \* how many times setInterval(updateDashboard, ...) was called
    isPaused,     \* the pause flag
    statusText,   \* the text of the status indicator
    hidden,       \* document.hidden
    initDone,     \* whether initApp has passed its await
    settingsInterval,\* settings.interval in seconds
    UPDATE_INTERVAL\* the refresh delay in ms

probeVars == <<service, promise, timeout, conn, phase, sockTimer, idleSince,
               elapsed, deliveries, cbCount, firstCb, firstResult, lastArg,
               received>>

cacheVars == <<nowMs, cpuCache, networkCache, pollPc, pollTodo, lastCall,
               lastRecorded, evicted, statsMap, lastVisit>>

systemVars == <<branch, parts, response>>

wireGuardVars == <<wireguard, execLog, lastPoll>>

parseVars == <<wgOutput, wgData, pivpnOutput, clients>>

discoverVars == <<tcpOutput, udpOutput, discovered>>

textVars == <<handshakeStr, totalSeconds, transferStr, transfer>>

apiVars == <<api, defaultApi, putApi, generated, apiResponse, shown>>

rateVars == <<rateNow, rateLimit, made, passedAt, rateResponse>>

netVars == <<netStats, lastSeen>>

snapVars == <<inventory, ownStats, containers>>

lockVars == <<lockPromise, previousLock, lockPc, released, settingsFile, loadedCopy, fnThrew, lockResult, callOrder, startOrder>>

dashVars == <<timers, updateIntervalId, timerCount, isPaused, statusText, hidden, initDone, settingsInterval, UPDATE_INTERVAL>>

vars == <<probeVars, cacheVars, systemVars, wireGuardVars, parseVars,
          discoverVars, textVars, apiVars,
    rateVars,
    netVars,
    snapVars,
    lockVars,
    dashVars>>

\* what the actions of one part leave alone
notProbe == <<cacheVars, systemVars, wireGuardVars, parseVars, discoverVars,
    textVars, apiVars,
    rateVars,
    netVars,
    snapVars,
    lockVars,
    dashVars>>
notCache == <<probeVars, systemVars, wireGuardVars, parseVars, discoverVars,
    textVars, apiVars,
    rateVars,
    netVars,
    snapVars,
    lockVars,
    dashVars>>
notSystem == <<probeVars, cacheVars, wireGuardVars, parseVars, discoverVars,
    textVars, apiVars,
    rateVars,
    netVars,
    snapVars,
    lockVars,
    dashVars>>
notWireGuard == <<probeVars, cacheVars, systemVars, parseVars, discoverVars,
    textVars, apiVars,
    rateVars,
    netVars,
    snapVars,
    lockVars,
    dashVars>>
notParse == <<probeVars, cacheVars, systemVars, wireGuardVars, discoverVars,
    textVars, apiVars,
    rateVars,
    netVars,
    snapVars,
    lockVars,
    dashVars>>
notDiscover == <<probeVars, cacheVars, systemVars, wireGuardVars, parseVars,
    textVars, apiVars,
    rateVars,
    netVars,
    snapVars,
    lockVars,
    dashVars>>
notText == <<probeVars, cacheVars, systemVars, wireGuardVars, parseVars,
    discoverVars, apiVars,
    rateVars,
    netVars,
    snapVars,
    lockVars,
    dashVars>>
notApi == <<probeVars, cacheVars, systemVars, wireGuardVars, parseVars,
    discoverVars, textVars,
    rateVars,
    netVars,
    snapVars,
    lockVars,
    dashVars>>
notRate == <<probeVars,
    cacheVars,
    systemVars,
    wireGuardVars,
    parseVars,
    discoverVars,
    textVars,
    apiVars,
    netVars,
    snapVars,
    lockVars,
    dashVars>>
\* the network polls read the clock and write networkCache
notNet == <<probeVars,
    systemVars,
    wireGuardVars,
    parseVars,
    discoverVars,
    textVars,
    apiVars,
    rateVars,
    snapVars,
    lockVars,
    dashVars>>
notSnap == <<probeVars,
    cacheVars,
    systemVars,
    wireGuardVars,
    parseVars,
    discoverVars,
    textVars,
    apiVars,
    rateVars,
    netVars,
    lockVars,
    dashVars>>
notLock == <<probeVars,
    cacheVars,
    systemVars,
    wireGuardVars,
    parseVars,
    discoverVars,
    textVars,
    apiVars,
    rateVars,
    netVars,
    snapVars,
    dashVars>>
notDash == <<probeVars,
    cacheVars,
    systemVars,
    wireGuardVars,
    parseVars,
    discoverVars,
    textVars,
    apiVars,
    rateVars,
    netVars,
    snapVars,
    lockVars>>

----------------------------------------------------------------------------
(* Values shared by the specifications *)

\* JavaScript null / an absent optional field, and a present number
Null == <<>>
Some(n) == <<n>>

----------------------------------------------------------------------------
(* ===================== Service health probe ===================== *)

\* the 3000 ms of every setTimeout / socket timeout of the probes
ProbeTimeoutMs == 3000

\* elapsed time advances in steps of a third of the timeout
TickMs == ProbeTimeoutMs \div 3

\* how many ticks of elapsed time one probe is followed for
MaxTicks == 4

VALID_CHECK_TYPES == {"http", "tcp", "redis", "dns", "interface"}

\* checkType values a stored descriptor can carry: the valid ones, none at
\* all, and a tag that is not a check type
CheckTypes == VALID_CHECK_TYPES \cup {"missing", "smtp"}

\* host strings by what the probes do with them: '' (falsy), 'localhost',
\* an IP address literal, any other host name
HostKinds == {"empty", "localhost", "ip", "name"}

\* request paths: one http.request accepts, one with a character outside
\* !-ÿ (for example a space), for which http.request throws
PathKinds == {"plain", "unescaped"}

\* HTTP status codes a peer answers with
StatusCodes == {200, 404, 499, 500, 503}

ServiceDescriptors ==
    [checkType : CheckTypes, host : HostKinds, path : PathKinds]

NoService == [checkType |-> "missing", host |-> "empty", path |-> "plain"]

HealthResult(status, latency, statusCode) ==
    [status |-> status, latency |-> latency, statusCode |-> statusCode]

NoResult == HealthResult("none", Null, Null)

Offline == HealthResult("offline", Null, Null)

\* what a reply of the peer carried: the status code of an HTTP response, the
\* text of the first data chunk of a redis peer
Reply(statusCode, text) == [statusCode |-> statusCode, text |-> text]

\* first data chunks a peer on a redis port answers PING with
RedisReplies == {"+PONG", "-NOAUTH Authentication required.", "SSH-2.0-OpenSSH_9.2"}

\* response.includes('PONG')
IncludesPong(text) == text \in {"+PONG"}

\* Promise resolve(): settles a pending promise, is a no-op on a settled one
ResolveOverwrite(p, v) == [state |-> "resolved", value |-> v]
Resolve(p, v) ==
    IF p.state = "pending" THEN [state |-> "resolved", value |-> v] ELSE p

\* a throw inside the promise executor rejects the promise
Reject(p) ==
    IF p.state = "pending" THEN [state |-> "rejected", value |-> NoResult] ELSE p

\* clearTimeout(): cancels an armed timer, no effect on a fired one
ClearTimeout(t) == IF t = "armed" THEN "cleared" ELSE t

\* the switch of checkService: which check function runs
Dispatched(checkType) ==
    CASE checkType = "tcp" -> "tcp"
      [] checkType = "redis" -> "redis"
      [] checkType = "dns" -> "dns"
      [] checkType = "interface" -> "interface"
      [] OTHER -> "http"

\* the check function that is running
kind == Dispatched(service.checkType)

\* an entry of the service tables; path "" stands for no path property
Known(name, checkType, path) ==
    [name |-> name, checkType |-> checkType, path |-> path]

\* the rows of KNOWN_SERVICES for the ports the model uses
KNOWN_SERVICES ==
    [p \in {22, 53, 80, 500, 1194, 6379, 8096, 51820} |->
        CASE p = 22 -> Known("SSH", "tcp", "")
          [] p = 53 -> Known("DNS", "dns", "")
          [] p = 80 -> Known("HTTP", "http", "/")
          [] p = 500 -> Known("IKEv2/IPSec", "interface", "")
          [] p = 1194 -> Known("OpenVPN", "interface", "")
          [] p = 6379 -> Known("Redis", "redis", "")
          [] p = 8096 -> Known("Jellyfin", "http", "/")
          [] p = 51820 -> Known("WireGuard", "interface", "")]

\* the rows of KNOWN_PROCESSES for the process names the model uses
KNOWN_PROCESSES ==
    [n \in {"sshd", "jellyfin", "redis-server"} |->
        CASE n = "sshd" -> Known("SSH", "tcp", "")
          [] n = "jellyfin" -> Known("Jellyfin", "http", "/")
          [] n = "redis-server" -> Known("Redis", "redis", "")]

\* a port that is not a key of KNOWN_SERVICES
UnknownPort == 12345

\* inferCheckType(port, explicitCheckType); "missing" is the absent value
inferCheckType(port, explicitCheckType) ==
    IF explicitCheckType # "missing" /\ explicitCheckType \in VALID_CHECK_TYPES
    THEN explicitCheckType
    ELSE IF port \in DOMAIN KNOWN_SERVICES
         THEN KNOWN_SERVICES[port].checkType
         ELSE "tcp"

\* a callback of the probe calls resolve(v): the promise, the caller's
\* continuation and the bookkeeping of who came first
CallResolve(cb, v) ==
    /\ promise' = Resolve(promise, v)
    /\ deliveries' = IF promise' # promise THEN deliveries + 1 ELSE deliveries
    /\ cbCount' = cbCount + 1
    /\ firstCb' = IF cbCount = 0 THEN cb ELSE firstCb
    /\ firstResult' = IF cbCount = 0 THEN v ELSE firstResult
    /\ lastArg' = v

NoResolve == UNCHANGED <<promise, deliveries, cbCount, firstCb, firstResult, lastArg>>

ProbeInit ==
    /\ service = NoService
    /\ promise = [state |-> "none", value |-> NoResult]
    /\ timeout = "unset"
    /\ conn = "none"
    /\ phase = "idle"
    /\ sockTimer = "unset"
    /\ idleSince = 0
    /\ elapsed = 0
    /\ deliveries = 0
    /\ cbCount = 0
    /\ firstCb = "none"
    /\ firstResult = NoResult
    /\ lastArg = NoResult
    /\ received = Null

\* checkService(service) with checkType http (or default): the executor arms
\* the timer, then http.request(...) either throws on the path or opens the
\* request
StartHttp(s) ==
    /\ Dispatched(s.checkType) = "http"
    /\ timeout' = "armed"
    /\ IF s.path = "unescaped"
         THEN /\ promise' = Reject([state |-> "pending", value |-> NoResult])
              /\ conn' = "none"
              /\ phase' = "threw"
              /\ sockTimer' = "unset"
         ELSE /\ promise' = [state |-> "pending", value |-> NoResult]
              /\ conn' = "open"
              /\ phase' = "connecting"
              /\ sockTimer' = "armed"

\* checkTcpService / checkRedisService up to socket.connect(...)
StartSocket(s) ==
    /\ Dispatched(s.checkType) \in {"tcp", "redis"}
    /\ timeout' = "armed"
    /\ promise' = [state |-> "pending", value |-> NoResult]
    /\ conn' = "open"
    /\ phase' = "connecting"
    /\ sockTimer' = "unset"

\* checkDnsService: resolver.setServers([ip:port]) throws for a host that is
\* not an IP address (localhost is converted, '' defaults to 127.0.0.1),
\* before the timer is armed
StartDns(s) ==
    /\ Dispatched(s.checkType) = "dns"
    /\ sockTimer' = "unset"
    /\ IF s.host = "name"
         THEN /\ promise' = Reject([state |-> "pending", value |-> NoResult])
              /\ timeout' = "unset"
              /\ conn' = "none"
              /\ phase' = "threw"
         ELSE /\ promise' = [state |-> "pending", value |-> NoResult]
              /\ timeout' = "armed"
              /\ conn' = "open"
              /\ phase' = "querying"

\* checkInterfaceService: fs.access, no timer, no connection
StartInterface(s) ==
    /\ Dispatched(s.checkType) = "interface"
    /\ promise' = [state |-> "pending", value |-> NoResult]
    /\ timeout' = "unset"
    /\ conn' = "none"
    /\ phase' = "accessing"
    /\ sockTimer' = "unset"

\* checkService(service)
CheckService ==
    /\ UNCHANGED notProbe
    /\ promise.state = "none"
    /\ \E s \in ServiceDescriptors :
        /\ service' = s
        /\ \/ StartHttp(s)
           \/ StartSocket(s)
           \/ StartDns(s)
           \/ StartInterface(s)
    /\ UNCHANGED <<idleSince, elapsed, deliveries, cbCount, firstCb,
                   firstResult, lastArg, received>>

\* time passes
Tick ==
    /\ UNCHANGED notProbe
    /\ promise.state # "none"
    /\ elapsed + TickMs <= MaxTicks * TickMs
    /\ elapsed' = elapsed + TickMs
    /\ UNCHANGED <<received, service, promise, timeout, conn, phase, sockTimer,
                   idleSince, deliveries, cbCount, firstCb, firstResult, lastArg>>

\* the setTimeout callback of the running check function
TimerFireNoResolve ==
    /\ UNCHANGED notProbe
    /\ timeout = "armed"
    /\ elapsed >= ProbeTimeoutMs
    /\ timeout' = "fired"
    /\ conn' = IF kind \in {"tcp", "redis"} /\ conn = "open" THEN "destroyed" ELSE conn
    /\ NoResolve
    /\ UNCHANGED <<received, service, phase, sockTimer, idleSince, elapsed>>
TimerFire ==
    /\ UNCHANGED notProbe
    /\ timeout = "armed"
    /\ elapsed >= ProbeTimeoutMs
    /\ timeout' = "fired"
    /\ conn' = IF kind \in {"tcp", "redis"} /\ conn = "open" THEN "destroyed" ELSE conn
    /\ CallResolve("timer", Offline)
    /\ UNCHANGED <<received, service, phase, sockTimer, idleSince, elapsed>>

\* http: the response callback
HttpResponseBelow400 ==
    /\ UNCHANGED notProbe
    /\ kind = "http"
    /\ conn = "open"
    /\ phase = "connecting"
    /\ \E code \in StatusCodes :
        /\ CallResolve("response",
              HealthResult(IF code < 400 THEN "online" ELSE "error",
                           Some(elapsed), Some(code)))
        /\ received' = Some(Reply(code, ""))
    /\ timeout' = ClearTimeout(timeout)
    /\ phase' = "responded"
    /\ idleSince' = elapsed
    /\ UNCHANGED <<service, conn, sockTimer, elapsed>>
HttpResponse ==
    /\ UNCHANGED notProbe
    /\ kind = "http"
    /\ conn = "open"
    /\ phase = "connecting"
    /\ \E code \in StatusCodes :
        /\ CallResolve("response",
              HealthResult(IF code < 500 THEN "online" ELSE "error",
                           Some(elapsed), Some(code)))
        /\ received' = Some(Reply(code, ""))
    /\ timeout' = ClearTimeout(timeout)
    /\ phase' = "responded"
    /\ idleSince' = elapsed
    /\ UNCHANGED <<service, conn, sockTimer, elapsed>>

\* http: req.on('error'): connection refused or reset before a response, or
\* the socket hang up that req.destroy() raises before a response
HttpError ==
    /\ UNCHANGED notProbe
    /\ kind = "http"
    /\ \/ conn = "open" /\ phase = "connecting"
       \/ phase = "hangup"
    /\ CallResolve("error", Offline)
    /\ timeout' = ClearTimeout(timeout)
    /\ conn' = IF conn = "open" THEN "closed" ELSE conn
    /\ phase' = "failed"
    /\ sockTimer' = IF sockTimer = "armed" THEN "off" ELSE sockTimer
    /\ UNCHANGED <<received, service, idleSince, elapsed>>

\* http: req.on('timeout'): the socket was idle for 3000 ms
HttpTimeout ==
    /\ UNCHANGED notProbe
    /\ kind = "http"
    /\ conn = "open"
    /\ sockTimer = "armed"
    /\ elapsed - idleSince >= ProbeTimeoutMs
    /\ sockTimer' = "fired"
    /\ conn' = "destroyed"
    /\ timeout' = ClearTimeout(timeout)
    /\ CallResolve("timeout", Offline)
    /\ phase' = IF phase = "connecting" THEN "hangup" ELSE phase
    /\ UNCHANGED <<received, service, idleSince, elapsed>>

\* tcp: the connect callback
TcpConnect ==
    /\ UNCHANGED notProbe
    /\ kind = "tcp"
    /\ conn = "open"
    /\ phase = "connecting"
    /\ timeout' = ClearTimeout(timeout)
    /\ conn' = "destroyed"
    /\ CallResolve("connect", HealthResult("online", Some(elapsed), Null))
    /\ phase' = "connected"
    /\ UNCHANGED <<received, service, sockTimer, idleSince, elapsed>>

\* tcp and redis: socket.on('error')
SocketError ==
    /\ UNCHANGED notProbe
    /\ kind \in {"tcp", "redis"}
    /\ conn = "open"
    /\ timeout' = ClearTimeout(timeout)
    /\ conn' = "destroyed"
    /\ CallResolve("error", Offline)
    /\ phase' = "failed"
    /\ UNCHANGED <<received, service, sockTimer, idleSince, elapsed>>

\* redis: the connect callback writes PING
RedisConnect ==
    /\ UNCHANGED notProbe
    /\ kind = "redis"
    /\ conn = "open"
    /\ phase = "connecting"
    /\ phase' = "connected"
    /\ NoResolve
    /\ UNCHANGED <<received, service, timeout, conn, sockTimer, idleSince, elapsed>>

\* redis: socket.on('data')
RedisDataAnyReply ==
    /\ UNCHANGED notProbe
    /\ kind = "redis"
    /\ conn = "open"
    /\ phase = "connected"
    /\ timeout' = ClearTimeout(timeout)
    /\ conn' = "destroyed"
    /\ \E data \in RedisReplies :
        /\ CallResolve("data", HealthResult("online", Some(elapsed), Null))
        /\ received' = Some(Reply(0, data))
    /\ phase' = "replied"
    /\ UNCHANGED <<service, sockTimer, idleSince, elapsed>>
RedisData ==
    /\ UNCHANGED notProbe
    /\ kind = "redis"
    /\ conn = "open"
    /\ phase = "connected"
    /\ timeout' = ClearTimeout(timeout)
    /\ conn' = "destroyed"
    /\ \E data \in RedisReplies :
        /\ CallResolve("data",
              HealthResult(IF IncludesPong(data) THEN "online" ELSE "error",
                           Some(elapsed), Null))
        /\ received' = Some(Reply(0, data))
    /\ phase' = "replied"
    /\ UNCHANGED <<service, sockTimer, idleSince, elapsed>>

\* dns: the resolver.resolve callback
DnsAnswer ==
    /\ UNCHANGED notProbe
    /\ kind = "dns"
    /\ conn = "open"
    /\ phase = "querying"
    /\ timeout' = ClearTimeout(timeout)
    /\ conn' = "closed"
    /\ \E err \in BOOLEAN :
        CallResolve("answer",
            HealthResult(IF err THEN "offline" ELSE "online",
                         IF err THEN Null ELSE Some(elapsed), Null))
    /\ phase' = "answered"
    /\ UNCHANGED <<received, service, sockTimer, idleSince, elapsed>>

\* interface: the fs.access callback
InterfaceAccess ==
    /\ UNCHANGED notProbe
    /\ kind = "interface"
    /\ phase = "accessing"
    /\ \E err \in BOOLEAN :
        CallResolve("access",
            HealthResult(IF err THEN "offline" ELSE "online",
                         IF err THEN Null ELSE Some(elapsed), Null))
    /\ phase' = "accessed"
    /\ UNCHANGED <<received, service, timeout, conn, sockTimer, idleSince, elapsed>>

----------------------------------------------------------------------------
(* ===================== Delta caches ===================== *)

\* setInterval(..., 60000): the period of the cpuCache sweep, also the step
\* in which the clock advances
SweepIntervalMs == 60000

\* const staleThreshold = 120000000, in microseconds
staleThreshold == 120000000

\* os.cpus().length
NUM_CPUS == 4

\* how many clock steps a behaviour is followed for
MaxClockSteps == 4

\* usage_usec readings of cpu.stat: multiples of 15 s of CPU time
UsageUnitUsec == staleThreshold \div 8

\* the largest usage_usec reading, in units
MaxUsage == 1

UsageValues == {u * UsageUnitUsec : u \in 0..MaxUsage}

\* container ids of the docker inventory
ContainerIds == {"c1", "c2"}

\* the order in which /containers/json lists them
ContainerOrder == <<"c1", "c2">>

\* interface names in /proc/net/dev
IfaceNames == {"eth0", "veth1"}

\* byte counters of /proc/net/dev
MaxBytes == 1

\* the two overlapping requests that poll
Requests == {1, 2}

\* the request whose statsMap, a local variable of getDockerContainerStats,
\* is followed; the statsMap of the other requests is not recorded
FollowedRequest == 3

AllRequests == Requests \cup {FollowedRequest}

\* the request followed where one poll at a time is enough
FirstRequest == CHOOSE r \in Requests : \A q \in Requests : r <= q

\* no calculateCpuPercent call has recorded yet
NoCall == [id |-> "none", foundNone |-> TRUE, foundPreceding |-> TRUE,
           evictedBefore |-> FALSE, cpuPercent |-> 0]

\* container.Id.substring(0, 12)
ShortId(fullId) ==
    CASE fullId = "c1" -> "s1" [] fullId = "c2" -> "s2" [] fullId = "c1x" -> "s1"

\* the VmRSS of a running container's process, in kB
VmRssKB == 2048

\* what the loop body finds of the container's process: no pid (exited), a
\* status file it cannot read, or a status file with a VmRSS line
ProcessStates == {"exited", "unreadable", "running"}

\* memUsage: memUsageKB * 1024, memUsageKB staying 0 unless VmRSS was read
MemUsage(process) == IF process = "running" THEN VmRssKB * 1024 ELSE 0

\* statsMap.set(shortId, { cpuPercent, memUsage, ... })
MapSetAlone(map, shortId, cpuPercent, memUsage) ==
    {[shortId |-> shortId, cpuPercent |-> cpuPercent, memUsage |-> memUsage]}
MapSet(map, shortId, cpuPercent, memUsage) ==
    {e \in map : e.shortId # shortId}
        \cup {[shortId |-> shortId, cpuPercent |-> cpuPercent, memUsage |-> memUsage]}

\* no loop iteration of this poll has run
NoVisit == [id |-> "none", inspect |-> "none", process |-> "exited",
            cpuStat |-> "unreadable"]

\* cpuCache.get(id): the entry's value or undefined
CacheGet(cache, id) ==
    IF \E e \in cache : e.id = id
      THEN Some(CHOOSE e \in cache : e.id = id)
      ELSE Null

\* cpuCache.set(id, { usageUsec, timeUsec }): replaces the entry of id
CacheSetAppend(cache, id, usageUsec, timeUsec) ==
    cache \cup {[id |-> id, usageUsec |-> usageUsec, timeUsec |-> timeUsec]}
CacheSet(cache, id, usageUsec, timeUsec) ==
    {e \in cache : e.id # id}
        \cup {[id |-> id, usageUsec |-> usageUsec, timeUsec |-> timeUsec]}

\* greatest common divisor, to keep exact quotients within the integers
RECURSIVE Gcd(_, _)
Gcd(a, b) == IF b = 0 THEN a ELSE Gcd(b, a % b)

\* Math.round(x * 10) / 10 of x = num / den >= 0, in tenths
RoundTenths(num, den) == (2 * 10 * num + den) \div (2 * den)

\* the value calculateCpuPercent returns, in tenths of a percent
CpuPercentPerCore(cached, currentUsageUsec, now) ==
    IF cached = Null THEN 0
    ELSE LET deltaUsage == currentUsageUsec - cached[1].usageUsec
             deltaTime == now - cached[1].timeUsec
         IN IF deltaTime <= 0 \/ deltaUsage < 0 THEN 0
            ELSE LET g == Gcd(deltaUsage, deltaTime)
                 IN RoundTenths((deltaUsage \div g) * 100, deltaTime \div g)
CpuPercent(cached, currentUsageUsec, now) ==
    IF cached = Null THEN 0
    ELSE LET deltaUsage == currentUsageUsec - cached[1].usageUsec
             deltaTime == now - cached[1].timeUsec
         IN IF deltaTime <= 0 \/ deltaUsage < 0 THEN 0
            ELSE LET g == Gcd(deltaUsage, deltaTime)
                 IN RoundTenths((deltaUsage \div g) * 100,
                                (deltaTime \div g) * NUM_CPUS)

\* calculateCpuPercent(containerId, currentUsageUsec): null usage returns 0
\* and touches nothing; otherwise get, set, compute, in one synchronous run
calculateCpuPercent(containerId, currentUsageUsec) ==
    IF currentUsageUsec = Null
    THEN UNCHANGED <<cpuCache, lastCall, lastRecorded, evicted>>
    ELSE LET now == nowMs * 1000
             cached == CacheGet(cpuCache, containerId)
         IN /\ cpuCache' = CacheSet(cpuCache, containerId, currentUsageUsec[1], now)
            /\ lastCall' = [id |-> containerId,
                            foundNone |-> cached = Null,
                            foundPreceding |-> cached = lastRecorded[containerId],
                            evictedBefore |-> evicted[containerId],
                            cpuPercent |->
                                CpuPercent(cached, currentUsageUsec[1], now)]
            /\ lastRecorded' = [lastRecorded EXCEPT ![containerId] =
                                  Some([id |-> containerId,
                                        usageUsec |-> currentUsageUsec[1],
                                        timeUsec |-> now])]
            /\ evicted' = [evicted EXCEPT ![containerId] = FALSE]

CacheInit ==
    /\ nowMs = 0
    /\ cpuCache = {}
    /\ networkCache = [lastStats |-> {}, lastTime |-> 0]
    /\ pollPc = [r \in AllRequests |-> "idle"]
    /\ pollTodo = [r \in AllRequests |-> <<>>]
    /\ lastCall = NoCall
    /\ lastRecorded = [id \in ContainerIds |-> Null]
    /\ evicted = [id \in ContainerIds |-> FALSE]
    /\ statsMap = {}
    /\ lastVisit = NoVisit

\* wall-clock time passes
ClockAdvance ==
    /\ UNCHANGED notCache
    /\ nowMs + SweepIntervalMs <= MaxClockSteps * SweepIntervalMs
    /\ nowMs' = nowMs + SweepIntervalMs
    /\ UNCHANGED <<cpuCache, networkCache, pollPc, pollTodo, lastCall,
                   lastRecorded, evicted, statsMap, lastVisit>>

\* the entries the sweep deletes
StaleEager(cache, now) == {e \in cache : now - e.timeUsec >= staleThreshold \div 2}
Stale(cache, now) == {e \in cache : now - e.timeUsec > staleThreshold}

\* the setInterval callback: deletes the stale cpuCache entries
Sweep ==
    /\ UNCHANGED notCache
    /\ nowMs >= SweepIntervalMs
    /\ LET now == nowMs * 1000
           gone == Stale(cpuCache, now)
       IN /\ cpuCache' = cpuCache \ gone
          /\ evicted' = [id \in ContainerIds |->
                           evicted[id] \/ (\E e \in gone : e.id = id)]
    /\ UNCHANGED <<nowMs, networkCache, pollPc, pollTodo, lastCall, lastRecorded,
                   statsMap, lastVisit>>

\* a request reaches getDockerContainerStats and awaits /containers/json
PollStart(r) ==
    /\ UNCHANGED notCache
    /\ pollPc[r] = "idle"
    /\ pollPc' = [pollPc EXCEPT ![r] = "listing"]
    /\ UNCHANGED <<nowMs, cpuCache, networkCache, pollTodo, lastCall,
                   lastRecorded, evicted, statsMap, lastVisit>>

\* the sub-sequence of seq with the members of S
RECURSIVE SelectIds(_, _)
SelectIds(seq, S) ==
    IF seq = <<>> THEN <<>>
    ELSE IF Head(seq) \in S THEN <<Head(seq)>> \o SelectIds(Tail(seq), S)
         ELSE SelectIds(Tail(seq), S)

\* /containers/json answers with the running containers and /proc/meminfo is
\* read: the loop starts on a new statsMap; or the list is empty, the call
\* fails or /proc/meminfo cannot be read: an empty Map is returned
PollListed(r) ==
    /\ UNCHANGED notCache
    /\ pollPc[r] = "listing"
    /\ \/ \E running \in (SUBSET ContainerIds) \ {{}} :
            /\ pollTodo' = [pollTodo EXCEPT ![r] = SelectIds(ContainerOrder, running)]
            /\ pollPc' = [pollPc EXCEPT ![r] = "inspecting"]
       \/ /\ pollTodo' = [pollTodo EXCEPT ![r] = <<>>]
          /\ pollPc' = [pollPc EXCEPT ![r] = "idle"]
    /\ IF r = FollowedRequest
       THEN statsMap' = {} /\ lastVisit' = NoVisit
       ELSE UNCHANGED <<statsMap, lastVisit>>
    /\ UNCHANGED <<nowMs, cpuCache, networkCache, lastCall, lastRecorded, evicted>>

\* the inspect call of the next container answers or fails. On an answer the
\* loop body reads the process status (memory), reads cpu.stat (a usage or
\* null), calls calculateCpuPercent and sets the container's statsMap entry;
\* on a failure the catch leaves the statsMap as it is
PollInspected(r) ==
    /\ UNCHANGED notCache
    /\ pollPc[r] = "inspecting"
    /\ pollTodo[r] # <<>>
    /\ LET fullId == Head(pollTodo[r])
       IN \/ \E process \in ProcessStates :
             \E cpuUsageUsec \in {Some(u) : u \in UsageValues} \cup {Null} :
                /\ calculateCpuPercent(fullId, cpuUsageUsec)
                /\ IF r = FollowedRequest
                   THEN /\ statsMap' =
                            MapSet(statsMap, ShortId(fullId),
                                   IF cpuUsageUsec = Null THEN 0
                                   ELSE CpuPercent(CacheGet(cpuCache, fullId),
                                                   cpuUsageUsec[1], nowMs * 1000),
                                   MemUsage(process))
                        /\ lastVisit' =
                            [id |-> fullId, inspect |-> "answered",
                             process |-> process,
                             cpuStat |-> IF cpuUsageUsec = Null THEN "unreadable"
                                         ELSE "read"]
                   ELSE UNCHANGED <<statsMap, lastVisit>>
          \/ /\ UNCHANGED <<cpuCache, lastCall, lastRecorded, evicted, statsMap>>
             /\ IF r = FollowedRequest
                THEN lastVisit' =
                        [id |-> fullId, inspect |-> "failed",
                         process |-> "exited", cpuStat |-> "unreadable"]
                ELSE UNCHANGED lastVisit
    /\ pollTodo' = [pollTodo EXCEPT ![r] = Tail(pollTodo[r])]
    /\ pollPc' = [pollPc EXCEPT ![r] =
                    IF Tail(pollTodo[r]) = <<>> THEN "idle" ELSE "inspecting"]
    /\ UNCHANGED <<nowMs, networkCache>>

\* interfaces getHostNetworkStats skips: lo, docker0 and the names that start
\* with veth or br-, of which veth1 and br-0 stand here
Skipped(iface) == iface \in {"lo", "veth1", "br-0", "docker0"}

\* getHostNetworkStats on a readable /proc/net/dev: every listed interface
\* that is not skipped gets its lastStats entry replaced
NetworkUpdate(cache, counters) ==
    {e \in cache : e.iface \notin DOMAIN counters \/ Skipped(e.iface)}
        \cup {[iface |-> i, rxBytes |-> counters[i].rx, txBytes |-> counters[i].tx] :
                i \in {j \in DOMAIN counters : ~Skipped(j)}}

\* getHostNetworkStats, called synchronously by getSystemStats: reads
\* /proc/net/dev (the listed interfaces with their counters) or fails to
\* read it and returns []
getHostNetworkStats ==
    /\ UNCHANGED notCache
    /\ \/ \E listed \in SUBSET IfaceNames :
          \E counters \in [listed -> [rx : 0..MaxBytes, tx : 0..MaxBytes]] :
            networkCache' =
                [lastStats |-> NetworkUpdate(networkCache.lastStats, counters),
                 lastTime |-> nowMs]
       \/ UNCHANGED networkCache
    /\ UNCHANGED <<nowMs, cpuCache, pollPc, pollTodo, lastCall, lastRecorded,
                   evicted, statsMap, lastVisit>>

----------------------------------------------------------------------------
(* ===================== GET /api/v1/system ===================== *)

\* the enabled services of settings.json that the request probes
ServicesList == {"svc1", "svc2"}

\* the promises handed to the outer Promise.all, the inner Promise.all of the
\* probes counted by its members
Branches == {"stats", "info", "wireguard"} \cup ServicesList

NoParts == [containers |-> "none", wireguard |-> "none",
            services |-> [v \in ServicesList |-> "none"]]

NoResponse == [status |-> 0, body |-> NoParts]

SystemInit ==
    /\ branch = [b \in Branches |-> "idle"]
    /\ parts = NoParts
    /\ response = NoResponse

\* the handler runs up to the await of Promise.all: every branch has been
\* called; getSystemStats stands at its first await (the host counters)
SystemRequest ==
    /\ UNCHANGED notSystem
    /\ \A b \in Branches : branch[b] = "idle"
    /\ branch' = [b \in Branches |-> IF b = "stats" THEN "counters" ELSE "running"]
    /\ UNCHANGED <<parts, response>>

\* getSystemStats: the awaited host-level reads (si.osInfo, getHostDisks,
\* si.currentLoad, si.mem, si.cpuTemperature, si.time) complete, or one of
\* them rejects and getSystemStats rejects with it
StatsCounters ==
    /\ UNCHANGED notSystem
    /\ branch["stats"] = "counters"
    /\ \E ok \in BOOLEAN :
        branch' = [branch EXCEPT !["stats"] = IF ok THEN "containers" ELSE "rejected"]
    /\ UNCHANGED <<parts, response>>

\* getSystemStats: the container pass inside try/catch; a failure gives
\* containers = [] and getSystemStats still returns
StatsContainers ==
    /\ UNCHANGED notSystem
    /\ branch["stats"] = "containers"
    /\ \E ok \in BOOLEAN :
        parts' = [parts EXCEPT !.containers = IF ok THEN "list" ELSE "empty"]
    /\ branch' = [branch EXCEPT !["stats"] = "fulfilled"]
    /\ UNCHANGED response

\* getSystemInfo: its Promise.all of si.* reads completes or rejects
SystemInfo ==
    /\ UNCHANGED notSystem
    /\ branch["info"] = "running"
    /\ \E ok \in BOOLEAN :
        branch' = [branch EXCEPT !["info"] = IF ok THEN "fulfilled" ELSE "rejected"]
    /\ UNCHANGED <<parts, response>>

\* getWireGuardData: returns { enabled: false }, the client list, or
\* { enabled: true, error }; it catches every failure of its commands
WireGuardData ==
    /\ UNCHANGED notSystem
    /\ branch["wireguard"] = "running"
    /\ \E outcome \in {"disabled", "clients", "error"} :
        parts' = [parts EXCEPT !.wireguard = outcome]
    /\ branch' = [branch EXCEPT !["wireguard"] = "fulfilled"]
    /\ UNCHANGED response

\* what checkService(service) settles with: a HealthResult status, or a
\* rejection (the throw inside the executor)
ProbeOutcomes == {"online", "offline", "error", "rejected"}

\* the probe of one service settles
ServiceProbe(v) ==
    /\ UNCHANGED notSystem
    /\ branch[v] = "running"
    /\ \E outcome \in ProbeOutcomes :
        /\ branch' = [branch EXCEPT ![v] =
                        IF outcome = "rejected" THEN "rejected" ELSE "fulfilled"]
        /\ parts' = [parts EXCEPT !.services[v] = outcome]
    /\ UNCHANGED response

\* the await of Promise.all ends: with the first rejection the catch block
\* answers 500; with every branch fulfilled the snapshot is built and sent
SystemRespond ==
    /\ UNCHANGED notSystem
    /\ response.status = 0
    /\ \/ /\ \E b \in Branches : branch[b] = "rejected"
          /\ response' = [status |-> 500, body |-> NoParts]
       \/ /\ \A b \in Branches : branch[b] = "fulfilled"
          /\ response' = [status |-> 200, body |-> parts]
    /\ UNCHANGED <<branch, parts>>

----------------------------------------------------------------------------
(* ===================== WireGuard settings and VPN poll ===================== *)

\* the {1,15} of VALID_IFACE_REGEX
IfaceMaxLen == 15

\* the characters of the class [a-zA-Z0-9_-]
IfaceChars ==
    {"a", "b", "c", "d", "e", "f", "g", "h", "i", "j", "k", "l", "m",
     "n", "o", "p", "q", "r", "s", "t", "u", "v", "w", "x", "y", "z",
     "A", "B", "C", "D", "E", "F", "G", "H", "I", "J", "K", "L", "M",
     "N", "O", "P", "Q", "R", "S", "T", "U", "V", "W", "X", "Y", "Z",
     "0", "1", "2", "3", "4", "5", "6", "7", "8", "9", "_", "-"}

\* a name of n letters a
Repeat(n) == [i \in 1..n |-> "a"]

\* the default interface name 'wg0'
Wg0 == <<"w", "g", "0">>

\* 'wg0; rm -rf /'
Injection == <<"w", "g", "0", ";", " ", "r", "m", " ", "-", "r", "f", " ", "/">>

\* interface names, as character sequences, that a settings file or a
\* request body can carry: '', valid names, names with other characters
\* (one ending in a line feed), names of 15 and of 16 characters
IfaceCandidates ==
    {<<>>, Wg0, <<"t", "u", "n", "_", "0", "-", "1">>, Injection,
     <<"w", "g", "0", "\n">>, Repeat(IfaceMaxLen), Repeat(IfaceMaxLen + 1)}

\* /^[a-zA-Z0-9_-]{1,15}$/.test(name)
ValidIfaceUnanchored(name) == \E i \in 1..Len(name) : name[i] \in IfaceChars
ValidIface(name) ==
    /\ Len(name) >= 1
    /\ Len(name) <= IfaceMaxLen
    /\ \A i \in 1..Len(name) : name[i] \in IfaceChars

\* iface.match(/^[a-zA-Z0-9_-]+$/) of the settings update
PutAccepts(name) ==
    /\ Len(name) >= 1
    /\ \A i \in 1..Len(name) : name[i] \in IfaceChars

\* the sections a settings file can hold
WireGuardSections == [enabled : BOOLEAN, interface : IfaceCandidates]

\* settings?.wireguard || { enabled: false, interface: 'wg0' }
WgConfig(section) ==
    IF section = Null THEN [enabled |-> FALSE, interface |-> Wg0] ELSE section[1]

NoPoll == [interface |-> <<>>, result |-> "none", executed |-> {}]

\* settings.json as deployed or edited by hand: any section or none
WireGuardInit ==
    /\ wireguard \in {Null} \cup {Some(c) : c \in WireGuardSections}
    /\ execLog = {}
    /\ lastPoll = NoPoll

\* the other specifications run with no wireguard section
WireGuardIdle ==
    /\ wireguard = Null
    /\ execLog = {}
    /\ lastPoll = NoPoll

\* PUT /api/settings/wireguard with a body { enabled, interface }; either
\* field may be absent or of another type; saveSettings may fail
PutWireGuard ==
    /\ UNCHANGED notWireGuard
    /\ \E enabled \in {Null, Some(TRUE), Some(FALSE)},
          iface \in {Null} \cup {Some(n) : n \in IfaceCandidates},
          saved \in BOOLEAN :
        LET old == WgConfig(wireguard)
            e == IF enabled # Null THEN enabled[1] ELSE old.enabled
            n == IF iface # Null /\ PutAccepts(iface[1]) THEN iface[1]
                 ELSE old.interface
        IN wireguard' = IF saved THEN Some([enabled |-> e, interface |-> n])
                        ELSE wireguard
    /\ UNCHANGED <<execLog, lastPoll>>

\* getWireGuardData(settings) on the stored settings; wg show succeeds,
\* succeeds only with sudo, or fails both times
GetWireGuardData ==
    /\ UNCHANGED notWireGuard
    /\ LET wgConfig == WgConfig(wireguard)
           interfaceName == IF wgConfig.interface = <<>> THEN Wg0
                            ELSE wgConfig.interface
           plain == [cmd |-> "wg show", interface |-> interfaceName]
           sudo == [cmd |-> "sudo wg show", interface |-> interfaceName]
       IN IF ~wgConfig.enabled
            THEN /\ lastPoll' = [interface |-> interfaceName, result |-> "disabled",
                                 executed |-> {}]
                 /\ UNCHANGED execLog
          ELSE IF ~ValidIface(interfaceName)
            THEN /\ lastPoll' = [interface |-> interfaceName, result |-> "invalid",
                                 executed |-> {}]
                 /\ UNCHANGED execLog
          ELSE \E outcome \in {"ok", "sudo", "fail"} :
                 LET ran == IF outcome = "ok" THEN {plain} ELSE {plain, sudo}
                 IN /\ execLog' = execLog \cup ran
                    /\ lastPoll' = [interface |-> interfaceName,
                                    result |-> IF outcome = "fail" THEN "failed"
                                               ELSE "clients",
                                    executed |-> ran]
    /\ UNCHANGED wireguard

----------------------------------------------------------------------------
(* ===================== wg show status text ===================== *)

\* how many lines a status text has at most
MaxLines == 4

\* Math.floor(Date.now() / 1000) at the time of the parse
NowSec == 1700000000

\* the alternative (second|minute|hour|day)s? matches a word with, ignoring
\* case, lower-cased; "" for a word the pattern does not match
MatchedUnit(word) ==
    CASE word \in {"second", "seconds", "SECOND", "Seconds"} -> "second"
      [] word \in {"minute", "minutes", "Minutes", "MINUTE"} -> "minute"
      [] word \in {"hour", "hours", "Hour", "HOURS"} -> "hour"
      [] word \in {"day", "days", "Days", "DAY"} -> "day"
      [] OTHER -> ""

\* the units of a handshake phrase and their seconds
UnitSeconds(unit) ==
    CASE MatchedUnit(unit) = "second" -> 1
      [] MatchedUnit(unit) = "minute" -> 60
      [] MatchedUnit(unit) = "hour" -> 3600
      [] MatchedUnit(unit) = "day" -> 86400
      [] OTHER -> 0

\* a word of a handshake text: "<n> <unit>" or a word no pattern matches
Word(n, unit) == [n |-> n, unit |-> unit]

\* the phrases str.match(/(\d+)\s*(second|minute|hour|day)s?/gi) finds
Phrases(str) == SelectSeq(str, LAMBDA w : UnitSeconds(w.unit) > 0)

RECURSIVE SumSeconds(_)
SumSeconds(matches) ==
    IF matches = <<>> THEN 0
    ELSE Head(matches).n * UnitSeconds(Head(matches).unit)
         + SumSeconds(Tail(matches))

\* parseHandshakeTime(str): Null for no text and for text with no phrase
parseHandshakeTimeZero(str) == Some(SumSeconds(Phrases(str)))
parseHandshakeTime(str) ==
    IF str = <<>> THEN Null
    ELSE IF Phrases(str) = <<>> THEN Null
    ELSE Some(SumSeconds(Phrases(str)))

\* the bytes of one unit of a transfer clause
UnitBytes(unit) ==
    CASE unit \in {"B", "b"} -> 1
      [] unit \in {"KiB", "kib", "KIB"} -> 1024
      [] unit \in {"MiB", "mib", "MIB"} -> 1024 * 1024
      [] unit \in {"GiB", "gib", "GIB"} -> 1024 * 1024 * 1024

\* a clause "<value> <unit> received" or "... sent"; value in hundredths
Clause(hundredths, unit) == [hundredths |-> hundredths, unit |-> unit]

\* Math.round(x) for x = num / den, den > 0, num >= 0
RoundHalfUp(num, den) == (2 * num + den) \div (2 * den)

\* parseBytes(value, unit): Math.round(parseFloat(value) * unit bytes)
parseBytesFloor(c) ==
    LET whole == c.hundredths \div 100
        frac == c.hundredths % 100
        q == UnitBytes(c.unit) \div 100
        m == UnitBytes(c.unit) % 100
    IN whole * UnitBytes(c.unit) + frac * q + ((frac * m) \div 100)
parseBytes(c) ==
    LET whole == c.hundredths \div 100
        frac == c.hundredths % 100
        q == UnitBytes(c.unit) \div 100
        m == UnitBytes(c.unit) % 100
    IN whole * UnitBytes(c.unit) + frac * q + RoundHalfUp(frac * m, 100)

\* one line of the status text, by the prefix its trimmed form starts with:
\* text is what follows the prefix, str the words of a handshake line,
\* rx / tx the clauses of a transfer line
Line(prefix, text, str, rx, tx) ==
    [prefix |-> prefix, text |-> text, str |-> str, rx |-> rx, tx |-> tx]

ThreeMinutesTwenty == <<Word(3, "minute"), Word(20, "second"), Word(0, "ago")>>
OneHour == <<Word(1, "hour"), Word(0, "ago")>>
NoPhrase == <<Word(0, "now")>>

WgLines ==
    {Line("public key:", k, <<>>, Null, Null) : k \in {"ifaceKey"}}
    \cup {Line("listening port:", "51820", <<>>, Null, Null)}
    \cup {Line("peer:", k, <<>>, Null, Null) : k \in {"keyA", "keyB"}}
    \cup {Line("endpoint:", e, <<>>, Null, Null) : e \in {"1.2.3.4:5", "6.7.8.9:5"}}
    \cup {Line("latest handshake:", "", h, Null, Null) :
            h \in {ThreeMinutesTwenty, NoPhrase}}
    \cup {Line("transfer:", "", <<>>, Some(Clause(365, "MiB")), Some(Clause(150, "KiB"))),
          Line("transfer:", "", <<>>, Null, Some(Clause(92, "B")))}
    \cup {Line("allowed ips:", "10.6.0.2/32", <<>>, Null, Null)}

\* every status text of at most MaxLines lines
WgOutputs == UNION {[1..n -> WgLines] : n \in 0..MaxLines}

\* parseInt(text, 10) of the listening port line
ListenPort(text) == IF text = "51820" THEN Some(51820) ELSE Null

\* the object a `peer:` line creates
NewPeer(publicKey) ==
    [publicKey |-> publicKey, endpoint |-> Null, lastHandshake |-> Null,
     lastHandshakeSeconds |-> Null, transfer |-> [received |-> 0, sent |-> 0]]

\* result.peers.push(currentPeer) under `if (currentPeer)`
PushPeerNever(peers, currentPeer) == peers
PushPeer(peers, currentPeer) ==
    IF currentPeer # Null THEN Append(peers, currentPeer[1]) ELSE peers

\* the `else if (currentPeer)` branch: one detail line of the current peer
PeerDetail(peer, line) ==
    CASE line.prefix = "endpoint:" -> [peer EXCEPT !.endpoint = Some(line.text)]
      [] line.prefix = "latest handshake:" ->
            LET seconds == parseHandshakeTime(line.str)
            IN [peer EXCEPT !.lastHandshakeSeconds = seconds,
                            !.lastHandshake =
                                IF seconds # Null THEN Some(NowSec - seconds[1])
                                ELSE peer.lastHandshake]
      [] line.prefix = "transfer:" ->
            [peer EXCEPT !.transfer =
                [received |-> IF line.rx # Null THEN parseBytes(line.rx[1])
                              ELSE peer.transfer.received,
                 sent |-> IF line.tx # Null THEN parseBytes(line.tx[1])
                          ELSE peer.transfer.sent]]
      [] OTHER -> peer

\* one iteration of the loop over the lines; st is [interface, peers, currentPeer]
ParseLine(st, line) ==
    IF line.prefix = "public key:" THEN
        IF st.currentPeer = Null
        THEN [st EXCEPT !.interface.publicKey = Some(line.text)]
        ELSE st
    ELSE IF line.prefix = "listening port:" THEN
        [st EXCEPT !.interface.listenPort = ListenPort(line.text)]
    ELSE IF line.prefix = "peer:" THEN
        [st EXCEPT !.peers = PushPeer(st.peers, st.currentPeer),
                   !.currentPeer = Some(NewPeer(line.text))]
    ELSE IF st.currentPeer # Null THEN
        [st EXCEPT !.currentPeer = Some(PeerDetail(st.currentPeer[1], line))]
    ELSE st

RECURSIVE ParseLines(_, _)
ParseLines(st, lines) ==
    IF lines = <<>> THEN st
    ELSE ParseLines(ParseLine(st, Head(lines)), Tail(lines))

\* parseWgShow(output, interfaceName)
parseWgShow(output, interfaceName) ==
    LET start == [interface |-> [name |-> interfaceName, publicKey |-> Null,
                                 listenPort |-> Null],
                  peers |-> <<>>,
                  currentPeer |-> Null]
        st == ParseLines(start, output)
    IN [interface |-> st.interface,
        peers |-> PushPeer(st.peers, st.currentPeer)]

\* how many peers the status text of the client list names at most
MaxPeers == 3

\* one line of `pivpn -l`: the header, a "name  key  date" entry or other text
PivpnLine(shape, name, publicKey) ==
    [shape |-> shape, name |-> name, publicKey |-> publicKey]

PivpnHeader == PivpnLine("header", "", "")

\* the outputs of `pivpn -l` the client list is built with; the last one
\* names keyB twice
PivpnOutputs ==
    {<<>>,
     <<PivpnHeader, PivpnLine("entry", "zed", "keyA"),
       PivpnLine("entry", "alice", "keyB")>>,
     <<PivpnLine("entry", "Bob", "keyA"), PivpnLine("other", "alice", "key"),
       PivpnLine("entry", "alice", "keyC")>>,
     <<PivpnLine("entry", "zed", "keyB"), PivpnLine("entry", "alice", "keyB")>>}

\* parsePivpnList(output): the Map from public key to name, "" for no entry
RECURSIVE parsePivpnList(_)
parsePivpnList(output) ==
    IF output = <<>> THEN [k \in {"keyA", "keyB", "keyC"} |-> ""]
    ELSE LET line == output[Len(output)]
             before == parsePivpnList(SubSeq(output, 1, Len(output) - 1))
         IN IF line.shape = "entry"
            THEN [before EXCEPT ![line.publicKey] = line.name]
            ELSE before

\* formatTimeAgo(seconds)
formatTimeAgo(seconds) ==
    IF seconds = Null THEN "never"
    ELSE IF seconds[1] < 60 THEN ToString(seconds[1]) \o " sec ago"
    ELSE IF seconds[1] < 3600 THEN ToString(seconds[1] \div 60) \o " min ago"
    ELSE IF seconds[1] < 86400 THEN ToString(seconds[1] \div 3600) \o " hr ago"
    ELSE ToString(seconds[1] \div 86400) \o " day ago"

ONLINE_THRESHOLD_SECONDS == 180

\* const isOnline = ...
isOnlineUpTo(peer) ==
    /\ peer.lastHandshakeSeconds # Null
    /\ peer.lastHandshakeSeconds[1] <= ONLINE_THRESHOLD_SECONDS
isOnline(peer) ==
    /\ peer.lastHandshakeSeconds # Null
    /\ peer.lastHandshakeSeconds[1] < ONLINE_THRESHOLD_SECONDS

\* the body of wgData.peers.map(peer => ...)
Client(peer, clientNames) ==
    [name |-> IF clientNames[peer.publicKey] # ""
              THEN clientNames[peer.publicKey] ELSE "unknown",
     publicKey |-> peer.publicKey,
     online |-> isOnline(peer),
     endpoint |-> peer.endpoint,
     lastHandshake |-> peer.lastHandshake,
     lastHandshakeAgo |-> formatTimeAgo(peer.lastHandshakeSeconds),
     transfer |-> peer.transfer]

\* the place of a name in the collation order of the names in use
NameRank(name) ==
    CASE name = "alice" -> 1
      [] name = "Bob" -> 2
      [] name = "unknown" -> 3
      [] name = "zed" -> 4

\* a.localeCompare(b)
localeCompare(a, b) ==
    IF NameRank(a) < NameRank(b) THEN -1
    ELSE IF NameRank(a) > NameRank(b) THEN 1 ELSE 0

\* the comparator of clients.sort
CompareClientsByName(a, b) == localeCompare(a.name, b.name)
CompareClients(a, b) ==
    IF a.online # b.online THEN (IF a.online THEN -1 ELSE 1)
    ELSE localeCompare(a.name, b.name)

\* Array.prototype.sort with the comparator: stable
RECURSIVE SortClients(_)
SortClients(list) ==
    IF list = <<>> THEN <<>>
    ELSE LET c == list[Len(list)]
             sorted == SortClients(SubSeq(list, 1, Len(list) - 1))
             pos == Cardinality({i \in 1..Len(sorted) :
                                    CompareClients(sorted[i], c) <= 0})
         IN SubSeq(sorted, 1, pos) \o <<c>> \o SubSeq(sorted, pos + 1, Len(sorted))

\* the lines of one peer of the status text: the marker, then at most one
\* handshake line
TwoMinutesFiftyNine == <<Word(2, "minute"), Word(59, "second"), Word(0, "ago")>>
ThreeMinutes == <<Word(3, "minute"), Word(0, "ago")>>

PeerBlocks ==
    {<<Line("peer:", k, <<>>, Null, Null)>> : k \in {"keyA", "keyB", "keyC"}}
    \cup {<<Line("peer:", k, <<>>, Null, Null),
            Line("latest handshake:", "", h, Null, Null)>> :
            k \in {"keyA", "keyB", "keyC"},
            h \in {TwoMinutesFiftyNine, ThreeMinutes, NoPhrase}}

RECURSIVE JoinBlocks(_)
JoinBlocks(blocks) ==
    IF blocks = <<>> THEN <<>> ELSE Head(blocks) \o JoinBlocks(Tail(blocks))

\* every status text of at most MaxPeers peers
ClientOutputs ==
    {JoinBlocks(blocks) : blocks \in UNION {[1..n -> PeerBlocks] : n \in 0..MaxPeers}}

NoWgData == [interface |-> [name |-> "", publicKey |-> Null, listenPort |-> Null],
             peers |-> <<>>, called |-> FALSE]

\* no status text has been read
ParseIdle ==
    /\ wgOutput = <<>>
    /\ wgData = NoWgData
    /\ pivpnOutput = <<>>
    /\ clients = Null

\* `wg show` has printed any status text
ParseInit ==
    /\ wgOutput \in WgOutputs
    /\ wgData = NoWgData
    /\ pivpnOutput = <<>>
    /\ clients = Null

\* `wg show` has printed the peers' blocks and `pivpn -l` any client list
ClientsInit ==
    /\ wgOutput \in ClientOutputs
    /\ wgData = NoWgData
    /\ pivpnOutput \in PivpnOutputs
    /\ clients = Null

\* getWireGuardData after both commands returned: parse the outputs, map
\* the peers to clients, sort the clients
ParseWgShow ==
    /\ UNCHANGED notParse
    /\ ~wgData.called
    /\ LET r == parseWgShow(wgOutput, "wg0")
           clientNames == parsePivpnList(pivpnOutput)
           mapped == [k \in 1..Len(r.peers) |-> Client(r.peers[k], clientNames)]
       IN /\ wgData' = [interface |-> r.interface, peers |-> r.peers,
                        called |-> TRUE]
          /\ clients' = Some(SortClients(mapped))
    /\ UNCHANGED <<wgOutput, pivpnOutput>>

----------------------------------------------------------------------------
(* ===================== Handshake and transfer texts ===================== *)

\* how many words a handshake text has at most
MaxWords == 3

\* the words of the handshake texts: "<n> <unit>" in several spellings and
\* words the pattern does not match
HandshakeWords ==
    {Word(n, u) : n \in {1, 3, 20},
                  u \in {"seconds", "minutes", "hour", "Days", "SECOND", "day"}}
    \cup {Word(0, "ago"), Word(0, "Now"), Word(2, "weeks")}

\* every handshake text of at most MaxWords words
HandshakeTexts == UNION {[1..n -> HandshakeWords] : n \in 0..MaxWords}

\* the clauses of the transfer texts; the GiB values stay below 2 GiB
TransferClauses ==
    {Clause(h, u) : h \in {0, 50, 92, 150, 365, 1721},
                    u \in {"B", "KiB", "MiB", "mib"}}
    \cup {Clause(h, "GiB") : h \in {100, 150}}

\* every transfer text: each of the two clauses present or not
TransferTexts ==
    {Line("transfer:", "", <<>>, rx, tx) :
        rx \in {Null} \cup {Some(c) : c \in TransferClauses},
        tx \in {Null} \cup {Some(c) : c \in TransferClauses}}

NotCalled == [called |-> FALSE, value |-> Null]

\* no text has been read
TextIdle ==
    /\ handshakeStr = <<>>
    /\ totalSeconds = NotCalled
    /\ transferStr = Line("transfer:", "", <<>>, Null, Null)
    /\ transfer = Null

\* a handshake line with any text
HandshakeInit ==
    /\ handshakeStr \in HandshakeTexts
    /\ totalSeconds = NotCalled
    /\ transferStr = Line("transfer:", "", <<>>, Null, Null)
    /\ transfer = Null

\* a transfer line with any text
TransferInit ==
    /\ handshakeStr = <<>>
    /\ totalSeconds = NotCalled
    /\ transferStr \in TransferTexts
    /\ transfer = Null

\* currentPeer.lastHandshakeSeconds = parseHandshakeTime(handshakeStr)
ParseHandshakeTime ==
    /\ UNCHANGED notText
    /\ ~totalSeconds.called
    /\ totalSeconds' = [called |-> TRUE, value |-> parseHandshakeTime(handshakeStr)]
    /\ UNCHANGED <<handshakeStr, transferStr, transfer>>

\* the transfer branch of parseWgShow on a peer that has just been created
ParseTransfer ==
    /\ UNCHANGED notText
    /\ transfer = Null
    /\ transfer' = Some(PeerDetail(NewPeer("keyA"), transferStr).transfer)
    /\ UNCHANGED <<handshakeStr, totalSeconds, transferStr>>

----------------------------------------------------------------------------
(* ===================== API key ===================== *)

\* how many keys are generated at most
MaxKeys == 2

\* generateApiKey(): the n-th call returns a key no earlier call returned
generateApiKey(n) == n

\* hashApiKey(key): the SHA-256 digest of the key
hashApiKey(key) == <<"sha256", key>>

\* an api section of the settings
ApiConfig(enabled, keyHash) == [enabled |-> enabled, keyHash |-> keyHash]

\* the bodies of PUT /api/settings/api: enabled absent or a boolean,
\* generateKey and clearKey set or not
PutBodies ==
    [enabled : {Null, Some(TRUE), Some(FALSE)},
     generateKey : BOOLEAN, clearKey : BOOLEAN]

\* (await loadSettings()).api: the file's section, else the default object
LoadApi == IF api # Null THEN api[1] ELSE defaultApi

\* the assignments of the locked section of the PUT
UpdateApi(old, body, newKey) ==
    LET generatedHash == IF body.generateKey THEN hashApiKey(newKey)
                         ELSE old.keyHash
    IN ApiConfig(IF body.enabled # Null THEN body.enabled[1] ELSE old.enabled,
                 IF body.clearKey THEN Null ELSE generatedHash)

\* a response of one of the routes; config is the api section the route read
ApiResponse(route, status, config, key, data, generateKey, providedKey) ==
    [route |-> route, status |-> status, enabled |-> config.enabled,
     hasKey |-> config.keyHash # Null, config |-> config, key |-> key,
     data |-> data, generateKey |-> generateKey, providedKey |-> providedKey]

\* no request of the API key routes has been made
ApiInit ==
    /\ api = Null
    /\ defaultApi = ApiConfig(FALSE, Null)
    /\ putApi = Null
    /\ generated = 0
    /\ apiResponse = Null
    /\ shown = [k \in 1..MaxKeys |-> 0]

\* PUT /api/settings/api up to the end of withFileLock: load, assign, save;
\* the write of settings.json succeeds or fails
PutApiLocked ==
    /\ UNCHANGED notApi
    /\ putApi = Null
    /\ \E body \in PutBodies, saved \in BOOLEAN :
        /\ body.generateKey => generated < MaxKeys
        /\ LET newKey == generateApiKey(generated + 1)
               updated == UpdateApi(LoadApi, body, newKey)
           IN /\ generated' = IF body.generateKey THEN generated + 1
                              ELSE generated
              /\ defaultApi' = IF api = Null THEN updated ELSE defaultApi
              /\ api' = IF saved THEN Some(updated) ELSE api
              /\ putApi' = Some([generateKey |-> body.generateKey,
                                 newKey |-> IF body.generateKey
                                            THEN Some(newKey) ELSE Null,
                                 saved |-> saved])
    /\ UNCHANGED <<apiResponse, shown>>

\* the rest of the PUT: load again and answer, or the catch branch
PutApiRespondLastKey ==
    /\ UNCHANGED notApi
    /\ putApi # Null
    /\ LET put == putApi[1]
           key == IF generated > 0 THEN Some(generateApiKey(generated)) ELSE Null
       IN IF put.saved
          THEN /\ apiResponse' = ApiResponse("PUT /api/settings/api", 200, LoadApi,
                                             key, FALSE, put.generateKey, Null)
               /\ shown' = IF key # Null
                            THEN [shown EXCEPT ![key[1]] = @ + 1]
                            ELSE shown
          ELSE /\ apiResponse' = ApiResponse("PUT /api/settings/api", 500, LoadApi,
                                             Null, FALSE, put.generateKey, Null)
               /\ shown' = shown
    /\ putApi' = Null
    /\ UNCHANGED <<api, defaultApi, generated>>
PutApiRespond ==
    /\ UNCHANGED notApi
    /\ putApi # Null
    /\ LET put == putApi[1]
       IN IF put.saved
          THEN /\ apiResponse' = ApiResponse("PUT /api/settings/api", 200, LoadApi,
                                             put.newKey, FALSE, put.generateKey,
                                             Null)
               /\ shown' = IF put.newKey # Null
                            THEN [shown EXCEPT ![put.newKey[1]] = @ + 1]
                            ELSE shown
          ELSE /\ apiResponse' = ApiResponse("PUT /api/settings/api", 500, LoadApi,
                                             Null, FALSE, put.generateKey, Null)
               /\ shown' = shown
    /\ putApi' = Null
    /\ UNCHANGED <<api, defaultApi, generated>>

\* GET /api/settings/api
GetApiSettings ==
    /\ UNCHANGED notApi
    /\ apiResponse' = ApiResponse("GET /api/settings/api", 200, LoadApi, Null,
                                  FALSE, FALSE, Null)
    /\ UNCHANGED <<api, defaultApi, putApi, generated, shown>>

\* the status requireApiKey ends GET /api/v1/system with, 200 for next()
KeyCheck(config, providedKey) ==
    IF ~config.enabled THEN 403
    ELSE IF config.keyHash = Null THEN 200
    ELSE IF providedKey = Null \/ hashApiKey(providedKey[1]) # config.keyHash
    THEN 401
    ELSE 200

\* GET /api/v1/system with no key, a key that was generated, or another key
RequireApiKey ==
    /\ UNCHANGED notApi
    /\ \E providedKey \in {Null} \cup {Some(k) : k \in 0..generated} :
        LET status == KeyCheck(LoadApi, providedKey)
        IN apiResponse' = ApiResponse("GET /api/v1/system", status, LoadApi, Null,
                                      status = 200, FALSE, providedKey)
    /\ UNCHANGED <<api, defaultApi, putApi, generated, shown>>

----------------------------------------------------------------------------
(* ===================== Service discovery ===================== *)

\* how many lines the TCP and the UDP socket table have at most
MaxTcpLines == 3
MaxUdpLines == 1

\* the largest port a TCP line is accepted with
MaxTcpPort == 32767

\* the port below which an unidentified TCP port gets a generic entry
GenericPortLimit == 10000

\* the ports of KNOWN_UDP_SERVICES
KNOWN_UDP_SERVICES ==
    [p \in {500, 1194, 1723, 4500, 51820} |->
        CASE p = 500 -> Known("IKEv2/IPSec", "interface", "ipsec0")
          [] p = 1194 -> Known("OpenVPN", "interface", "tun0")
          [] p = 1723 -> Known("PPTP", "tcp", "")
          [] p = 4500 -> Known("IPSec NAT-T", "interface", "ipsec0")
          [] p = 51820 -> Known("WireGuard", "interface", "wg0")]

\* one line of a socket table: its state column, the local address and port,
\* and the process name of users:(("...")), "" when the column is missing
SocketLine(state, addr, port, process) ==
    [state |-> state, addr |-> addr, port |-> port, process |-> process]

TcpLines ==
    {SocketLine("LISTEN", "0.0.0.0", 22, "sshd"),
     SocketLine("LISTEN", "127.0.0.1", 22, "sshd"),
     SocketLine("LISTEN", "127.0.0.1", 1194, ""),
     SocketLine("LISTEN", "*", 8096, "jellyfin"),
     SocketLine("LISTEN", "0.0.0.0", 8000, "myapp"),
     SocketLine("LISTEN", "*", 8000, ""),
     SocketLine("LISTEN", "0.0.0.0", 6379, "sshd"),
     SocketLine("LISTEN", "0.0.0.0", 6379, "myapp"),
     SocketLine("LISTEN", "0.0.0.0", 12345, "constructor"),
     SocketLine("LISTEN", "::", 12345, "myapp"),
     SocketLine("LISTEN", "0.0.0.0", 40000, "sshd"),
     SocketLine("LISTEN", "192.168.1.5", 8000, "myapp"),
     SocketLine("ESTAB", "0.0.0.0", 8000, "myapp")}

UdpLines ==
    {SocketLine("UNCONN", "0.0.0.0", 1194, "openvpn"),
     SocketLine("UNCONN", "*", 51820, ""),
     SocketLine("UNCONN", "0.0.0.0", 5353, "avahi-daemon"),
     SocketLine("UNCONN", "127.0.0.1", 500, "charon")}

\* every socket table of at most n lines
Tables(lines, n) == UNION {[1..k -> lines] : k \in 0..n}

\* line.match(/(?:0\.0\.0\.0|127\.0\.0\.1|\*|::):(\d+)/) of a TCP line
TcpAddrMatch(line) ==
    IF line.addr \in {"0.0.0.0", "127.0.0.1", "*", "::"} THEN Some(line.port)
    ELSE Null

\* line.match(/(?:0\.0\.0\.0|\*|::):(\d+)/) of a UDP line
UdpAddrMatch(line) ==
    IF line.addr \in {"0.0.0.0", "*", "::"} THEN Some(line.port) ELSE Null

\* property names every object literal inherits from Object.prototype: for
\* these KNOWN_PROCESSES[processName] is a function, which is truthy
InheritedKeys == {"constructor", "toString", "valueOf", "hasOwnProperty"}

\* { ...KNOWN_PROCESSES[processName], port } for an inherited key: the spread
\* of a function copies nothing, so name, checkType and path are undefined
NoRow == Known("undefined", "", "")

\* the service a TCP line is identified as, Null when it is not identified
Identify(port, processName) ==
    IF processName # "" /\ processName \in DOMAIN KNOWN_PROCESSES
    THEN Some(KNOWN_PROCESSES[processName])
    ELSE IF processName \in InheritedKeys THEN Some(NoRow)
    ELSE IF port \in DOMAIN KNOWN_SERVICES THEN Some(KNOWN_SERVICES[port])
    ELSE IF port < GenericPortLimit
         THEN Some(Known(IF processName # "" THEN processName
                         ELSE "Port " \o ToString(port),
                         "tcp", "/"))
    ELSE Null

\* the entry pushed for an identified TCP line
TcpEntry(svc, port, processName) ==
    [name |-> svc.name, port |-> port,
     path |-> IF svc.path # "" THEN svc.path ELSE "/",
     checkType |-> IF svc.checkType # "" THEN svc.checkType ELSE "tcp",
     process |-> processName,
     protocol |-> "tcp"]

\* the entry pushed for a UDP line of a known UDP service
UdpEntry(svc, port) ==
    [name |-> svc.name, port |-> port, path |-> svc.path,
     checkType |-> svc.checkType, process |-> "", protocol |-> "udp"]

\* one iteration of the loop over the TCP lines; sc is [discovered, seen]
TcpLine(sc, line) ==
    LET addrMatch == TcpAddrMatch(line)
    IN IF addrMatch = Null THEN sc
       ELSE LET port == addrMatch[1]
            IN IF port > MaxTcpPort \/ port \in sc.seen THEN sc
               ELSE IF line.addr = "127.0.0.1"
                    THEN [sc EXCEPT !.seen = @ \cup {port}]
               ELSE LET svc == Identify(port, line.process)
                    IN IF svc = Null
                       THEN [sc EXCEPT !.seen = @ \cup {port}]
                       ELSE [seen |-> sc.seen \cup {port},
                             discovered |->
                                Append(sc.discovered,
                                       TcpEntry(svc[1], port, line.process))]

\* one iteration of the loop over the UDP lines
UdpLine(sc, line) ==
    LET addrMatch == UdpAddrMatch(line)
    IN IF addrMatch = Null THEN sc
       ELSE LET port == addrMatch[1]
            IN IF port \in sc.seen THEN sc
               ELSE IF port \in DOMAIN KNOWN_UDP_SERVICES
                    THEN [seen |-> sc.seen \cup {port},
                          discovered |->
                             Append(sc.discovered,
                                    UdpEntry(KNOWN_UDP_SERVICES[port], port))]
               ELSE sc

RECURSIVE ScanTcp(_, _)
ScanTcp(sc, lines) ==
    IF lines = <<>> THEN sc
    ELSE ScanTcp(IF Head(lines).state = "LISTEN" THEN TcpLine(sc, Head(lines))
                 ELSE sc,
                 Tail(lines))

RECURSIVE ScanUdp(_, _)
ScanUdp(sc, lines) ==
    IF lines = <<>> THEN sc
    ELSE ScanUdp(IF Head(lines).state = "UNCONN" THEN UdpLine(sc, Head(lines))
                 ELSE sc,
                 Tail(lines))

\* the entries of a list with a port (not) below that of e, in list order
Before(list, e) == SelectSeq(list, LAMBDA x : x.port <= e.port)
After(list, e) == SelectSeq(list, LAMBDA x : x.port > e.port)

\* discovered.sort((a, b) => a.port - b.port), a stable sort
RECURSIVE SortByPort(_)
SortByPortNot(list) == list
SortByPort(list) ==
    IF list = <<>> THEN <<>>
    ELSE LET last == list[Len(list)]
             rest == SortByPort(SubSeq(list, 1, Len(list) - 1))
         IN Before(rest, last) \o <<last>> \o After(rest, last)

\* discoverServices(): tcp and udp are what the two scan commands printed,
\* Null for a command that failed
discoverServicesAllOrNone(tcp, udp) ==
    IF tcp = Null \/ udp = Null THEN <<>>
    ELSE LET start == [discovered |-> <<>>, seen |-> {}]
             afterTcp == ScanTcp(start, tcp[1])
             afterUdp == ScanUdp(afterTcp, udp[1])
         IN SortByPort(afterUdp.discovered)
discoverServices(tcp, udp) ==
    IF tcp = Null THEN <<>>
    ELSE LET start == [discovered |-> <<>>, seen |-> {}]
             afterTcp == ScanTcp(start, tcp[1])
             afterUdp == ScanUdp(afterTcp, IF udp = Null THEN <<>> ELSE udp[1])
         IN SortByPort(afterUdp.discovered)

\* no scan has run
DiscoverIdle ==
    /\ tcpOutput = Null
    /\ udpOutput = Null
    /\ discovered = Null

\* the socket tables of the host: any lines, or a scan command that fails
DiscoverInit ==
    /\ tcpOutput \in {Null} \cup {Some(t) : t \in Tables(TcpLines, MaxTcpLines)}
    /\ udpOutput \in {Null} \cup {Some(u) : u \in Tables(UdpLines, MaxUdpLines)}
    /\ discovered = Null

\* a call of discoverServices()
DiscoverServices ==
    /\ UNCHANGED notDiscover
    /\ discovered = Null
    /\ discovered' = Some(discoverServices(tcpOutput, udpOutput))
    /\ UNCHANGED <<tcpOutput, udpOutput>>

----------------------------------------------------------------------------
(* ===================== Rate limit ===================== *)

RATE_LIMIT_WINDOW == 60000
RATE_LIMIT_MAX == 100

\* how many non-GET requests the first client sends at most
MaxRequests == 102

\* the readings of Date.now() at which requests arrive
RateTimes == {0, 30000, 60000}

\* req.ip of the clients; the second one sends a single non-GET request
ClientIps == {"ipA", "ipB"}
RequestBudget(ip) == IF ip = "ipA" THEN MaxRequests ELSE 1

\* rateLimit.get(ip).filter(t => t > windowStart), as counts per time
RecentHalfWindow(log, now) ==
    [t \in RateTimes |->
        IF t > now - RATE_LIMIT_WINDOW + 30000 THEN log[t] ELSE 0]
Recent(log, now) ==
    [t \in RateTimes |-> IF t > now - RATE_LIMIT_WINDOW THEN log[t] ELSE 0]

\* requests.length
RECURSIVE LogLength(_, _)
LogLength(log, times) ==
    IF times = {} THEN 0
    ELSE LET t == CHOOSE x \in times : TRUE
         IN log[t] + LogLength(log, times \ {t})

RateInit ==
    /\ rateNow = 0
    /\ rateLimit = [ip \in ClientIps |-> [t \in RateTimes |-> 0]]
    /\ made = [ip \in ClientIps |-> 0]
    /\ passedAt = [ip \in ClientIps |-> [t \in RateTimes |-> 0]]
    /\ rateResponse = Null

\* time passes between two requests
RateClock ==
    /\ UNCHANGED notRate
    /\ \E t \in RateTimes : t > rateNow /\ rateNow' = t
    /\ UNCHANGED <<rateLimit, made, passedAt, rateResponse>>

\* the middleware on a GET request
RateLimitGet ==
    /\ UNCHANGED notRate
    /\ rateResponse' = Some([method |-> "GET", status |-> 200])
    /\ UNCHANGED <<rateNow, rateLimit, made, passedAt>>

\* the middleware on a request of another method; status 200 stands for
\* next()
RateLimitWrite ==
    /\ UNCHANGED notRate
    /\ \E ip \in ClientIps, method \in {"POST"} :
        /\ made[ip] < RequestBudget(ip)
        /\ LET kept == Recent(rateLimit[ip], rateNow)
               requests == [kept EXCEPT ![rateNow] = @ + 1]
               limited == LogLength(requests, RateTimes) > RATE_LIMIT_MAX
           IN /\ rateLimit' = [rateLimit EXCEPT ![ip] = requests]
              /\ passedAt' = IF limited THEN passedAt
                             ELSE [passedAt EXCEPT ![ip][rateNow] = @ + 1]
              /\ rateResponse' = Some([method |-> method,
                                       status |-> IF limited THEN 429 ELSE 200])
        /\ made' = [made EXCEPT ![ip] = @ + 1]
    /\ UNCHANGED rateNow

----------------------------------------------------------------------------
(* ===================== Host network rates ===================== *)

\* the readings of Date.now() at the polls, and the byte counters of
\* /proc/net/dev
NetTimes == {1000, 2000, 3000}
CounterValues == {0, 3000, 6000}

\* a JavaScript number: a finite integer, Infinity or NaN
Finite(n) == [kind |-> "finite", value |-> n]
Infinity == [kind |-> "Infinity", value |-> 0]
NaN == [kind |-> "NaN", value |-> 0]

\* Math.max(0, Math.round(diff / (deltaMs / 1000)))
NetRate(diff, deltaMs) ==
    IF deltaMs = 0
    THEN IF diff > 0 THEN Infinity ELSE IF diff = 0 THEN NaN ELSE Finite(0)
    ELSE LET num == IF deltaMs < 0 THEN 0 - diff * 1000 ELSE diff * 1000
             den == IF deltaMs < 0 THEN 0 - deltaMs ELSE deltaMs
         IN IF num <= 0 THEN Finite(0) ELSE Finite(RoundHalfUp(num, den))

\* the entry of networkCache.lastStats for the interface, Null for none
LastStat(cache, iface) ==
    IF \E e \in cache : e.iface = iface
    THEN Some(CHOOSE e \in cache : e.iface = iface)
    ELSE Null

NetInit ==
    /\ netStats = Null
    /\ lastSeen = [i \in IfaceNames |-> Null]

\* Date.now() takes another reading, later or earlier
NetClock ==
    /\ UNCHANGED notNet
    /\ UNCHANGED netVars
    /\ \E t \in NetTimes : nowMs' = t
    /\ UNCHANGED <<cpuCache, networkCache, pollPc, pollTodo, lastCall,
                   lastRecorded, evicted, statsMap, lastVisit>>

\* getHostNetworkStats with the list it returns: one entry per line of
\* /proc/net/dev that is not skipped; [] when the file cannot be read
HostNetworkPoll ==
    /\ UNCHANGED notNet
    /\ nowMs > 0
    /\ \/ \E listed \in SUBSET IfaceNames :
          \E counters \in [listed -> [rx : CounterValues, tx : {0}]] :
            LET deltaMs == IF networkCache.lastTime > 0
                           THEN nowMs - networkCache.lastTime ELSE 1000
                kept == {i \in listed : ~Skipped(i)}
            IN /\ netStats' = Some(
                    [i \in kept |->
                        LET lastStat == LastStat(networkCache.lastStats, i)
                        IN [rxBytes |-> counters[i].rx,
                            txBytes |-> counters[i].tx,
                            rxSec |-> IF lastStat = Null THEN Finite(0)
                                      ELSE NetRate(counters[i].rx
                                                   - lastStat[1].rxBytes, deltaMs),
                            txSec |-> IF lastStat = Null THEN Finite(0)
                                      ELSE NetRate(counters[i].tx
                                                   - lastStat[1].txBytes, deltaMs),
                            at |-> nowMs,
                            previous |-> lastSeen[i]]])
               /\ networkCache' =
                    [lastStats |-> NetworkUpdate(networkCache.lastStats, counters),
                     lastTime |-> nowMs]
               /\ lastSeen' = [i \in IfaceNames |->
                                 IF i \in kept
                                 THEN Some([rxBytes |-> counters[i].rx,
                                            txBytes |-> counters[i].tx,
                                            at |-> nowMs])
                                 ELSE lastSeen[i]]
       \/ /\ netStats' = Some(<<>>)
          /\ UNCHANGED <<networkCache, lastSeen>>
    /\ UNCHANGED <<nowMs, cpuCache, pollPc, pollTodo, lastCall, lastRecorded,
                   evicted, statsMap, lastVisit>>

----------------------------------------------------------------------------
(* ===================== Container snapshot ===================== *)

\* the containers of the snapshot: c1 and c1x have the same first 12
\* characters
SnapshotIds == {"c1", "c1x", "c2"}
SnapshotOrder == <<"c1", "c1x", "c2">>

\* what the loop body computes for one container: tenths of a percent and
\* bytes
ComputedStats ==
    [cpuPercent : {0, 250}, memUsage : {MemUsage(p) : p \in ProcessStates}]

\* the statsMap after the loop over the listed containers; computed[id] is
\* Null for a container whose inspect call failed
RECURSIVE BuildStatsMap(_, _)
BuildStatsMap(ids, computed) ==
    IF ids = <<>> THEN {}
    ELSE LET id == ids[Len(ids)]
             before == BuildStatsMap(SubSeq(ids, 1, Len(ids) - 1), computed)
         IN IF computed[id] = Null THEN before
            ELSE MapSet(before, ShortId(id), computed[id][1].cpuPercent,
                        computed[id][1].memUsage)

\* statsMap.get(shortId) || {} with the `|| 0` defaults of the map callback
StatsOf(map, shortId) ==
    IF \E e \in map : e.shortId = shortId
    THEN LET e == CHOOSE x \in map : x.shortId = shortId
         IN [cpuPercent |-> e.cpuPercent, memUsage |-> e.memUsage]
    ELSE [cpuPercent |-> 0, memUsage |-> 0]

SnapInit ==
    /\ inventory = Null
    /\ ownStats = [id \in SnapshotIds |-> Null]
    /\ containers = Null

\* si.dockerContainers(true) answers with a non-empty list
SnapshotListed ==
    /\ UNCHANGED notSnap
    /\ inventory = Null
    /\ \E listed \in (SUBSET SnapshotIds) \ {{}} :
        inventory' = Some(SelectIds(SnapshotOrder, listed))
    /\ UNCHANGED <<ownStats, containers>>

\* getDockerContainerStats returns and dockerContainers.map builds the
\* containers of the snapshot
SnapshotMapped ==
    /\ UNCHANGED notSnap
    /\ inventory # Null
    /\ containers = Null
    /\ LET ids == inventory[1]
           listed == {ids[k] : k \in 1..Len(ids)}
       IN \E computed \in [listed -> {Null} \cup {Some(c) : c \in ComputedStats}] :
            LET statsMapBuilt == BuildStatsMap(ids, computed)
            IN /\ ownStats' = [id \in SnapshotIds |->
                                 IF id \in listed THEN computed[id] ELSE Null]
               /\ containers' = Some([id \in listed |->
                                        StatsOf(statsMapBuilt, ShortId(id))])
    /\ UNCHANGED inventory

----------------------------------------------------------------------------
(* ===================== File lock ===================== *)

\* the requests that call withFileLock, each with a read-modify-write of the
\* settings file as its function
Callers == {"r1", "r2", "r3"}

LockInit ==
    /\ lockPromise = Null
    /\ previousLock = [c \in Callers |-> Null]
    /\ lockPc = [c \in Callers |-> "idle"]
    /\ released = [c \in Callers |-> FALSE]
    /\ settingsFile = {}
    /\ loadedCopy = [c \in Callers |-> {}]
    /\ fnThrew = [c \in Callers |-> FALSE]
    /\ lockResult = [c \in Callers |-> "pending"]
    /\ callOrder = <<>>
    /\ startOrder = <<>>

\* withFileLock up to `await previousLock`: the new acquire promise becomes
\* lockPromise and the caller waits for the one it replaced
LockCall(c) ==
    /\ UNCHANGED notLock
    /\ lockPc[c] = "idle"
    /\ previousLock' = [previousLock EXCEPT ![c] = lockPromise]
    /\ lockPromise' = Some(c)
    /\ lockPc' = [lockPc EXCEPT ![c] = "waiting"]
    /\ callOrder' = Append(callOrder, c)
    /\ UNCHANGED <<released, settingsFile, loadedCopy, fnThrew, lockResult,
                   startOrder>>

\* previousLock is resolved: the continuation calls fn(), which runs up to
\* its first await
LockStartEarly(c) ==
    /\ UNCHANGED notLock
    /\ lockPc[c] = "waiting"
    /\ lockPc' = [lockPc EXCEPT ![c] = "running"]
    /\ startOrder' = Append(startOrder, c)
    /\ UNCHANGED <<lockPromise, previousLock, released, settingsFile,
                   loadedCopy, fnThrew, lockResult, callOrder>>

LockStart(c) ==
    /\ UNCHANGED notLock
    /\ lockPc[c] = "waiting"
    /\ IF previousLock[c] = Null THEN TRUE ELSE released[previousLock[c][1]]
    /\ lockPc' = [lockPc EXCEPT ![c] = "running"]
    /\ startOrder' = Append(startOrder, c)
    /\ UNCHANGED <<lockPromise, previousLock, released, settingsFile,
                   loadedCopy, fnThrew, lockResult, callOrder>>

\* the function's loadSettings returns the content of the file
FnLoad(c) ==
    /\ UNCHANGED notLock
    /\ lockPc[c] = "running"
    /\ loadedCopy' = [loadedCopy EXCEPT ![c] = settingsFile]
    /\ lockPc' = [lockPc EXCEPT ![c] = "loaded"]
    /\ UNCHANGED <<lockPromise, previousLock, released, settingsFile, fnThrew,
                   lockResult, callOrder, startOrder>>

\* the function throws after the read (a full service list) or its
\* saveSettings rejects: the file keeps its content
FnThrow(c) ==
    /\ UNCHANGED notLock
    /\ lockPc[c] = "loaded"
    /\ fnThrew' = [fnThrew EXCEPT ![c] = TRUE]
    /\ lockPc' = [lockPc EXCEPT ![c] = "settled"]
    /\ UNCHANGED <<lockPromise, previousLock, released, settingsFile,
                   loadedCopy, lockResult, callOrder, startOrder>>

\* saveSettings writes what was read plus the caller's own change
FnSave(c) ==
    /\ UNCHANGED notLock
    /\ lockPc[c] = "loaded"
    /\ settingsFile' = loadedCopy[c] \cup {c}
    /\ lockPc' = [lockPc EXCEPT ![c] = "settled"]
    /\ UNCHANGED <<lockPromise, previousLock, released, loadedCopy, fnThrew,
                   lockResult, callOrder, startOrder>>

\* a try block without finally: release() only after a function that
\* returned
LockReleaseOnReturn(c) ==
    /\ UNCHANGED notLock
    /\ lockPc[c] = "settled"
    /\ released' = [released EXCEPT ![c] = ~fnThrew[c]]
    /\ lockResult' = [lockResult EXCEPT
                         ![c] = IF fnThrew[c] THEN "rejected" ELSE "resolved"]
    /\ lockPc' = [lockPc EXCEPT ![c] = "done"]
    /\ UNCHANGED <<lockPromise, previousLock, settingsFile, loadedCopy,
                   fnThrew, callOrder, startOrder>>

\* finally { release() }, then the promise of withFileLock settles as the
\* function did
LockRelease(c) ==
    /\ UNCHANGED notLock
    /\ lockPc[c] = "settled"
    /\ released' = [released EXCEPT ![c] = TRUE]
    /\ lockResult' = [lockResult EXCEPT
                         ![c] = IF fnThrew[c] THEN "rejected" ELSE "resolved"]
    /\ lockPc' = [lockPc EXCEPT ![c] = "done"]
    /\ UNCHANGED <<lockPromise, previousLock, settingsFile, loadedCopy,
                   fnThrew, callOrder, startOrder>>

----------------------------------------------------------------------------
(* ===================== Dashboard page timers ===================== *)

\* how many times the page calls setInterval(updateDashboard, ...)
MaxTimers == 4

\* the refresh intervals of the settings dialog, in seconds
Intervals == {1, 2}

\* setInterval: a new timer with a handle no earlier timer had
SetInterval(active, delay) ==
    active \cup {[id |-> timerCount + 1, delay |-> delay]}

\* clearInterval(handle): nothing happens for null or a cleared handle
ClearInterval(active, handle) ==
    IF handle = Null THEN active
    ELSE {t \in active : t.id # handle[1]}

\* the script has run: listeners registered, initApp waiting for the
\* settings of the server
DashInit ==
    /\ timers = {}
    /\ updateIntervalId = Null
    /\ timerCount = 0
    /\ isPaused = FALSE
    /\ statusText = "Live"
    /\ hidden = FALSE
    /\ initDone = FALSE
    /\ settingsInterval = 1
    /\ UPDATE_INTERVAL = 1000

\* initApp after loadSettingsFromServer: the server's interval, or the
\* current one when the fetch failed
InitApp ==
    /\ UNCHANGED notDash
    /\ ~initDone
    /\ timerCount < MaxTimers
    /\ \E loaded \in Intervals \cup {settingsInterval} :
        /\ settingsInterval' = loaded
        /\ UPDATE_INTERVAL' = loaded * 1000
        /\ timers' = SetInterval(timers, loaded * 1000)
    /\ updateIntervalId' = Some(timerCount + 1)
    /\ timerCount' = timerCount + 1
    /\ initDone' = TRUE
    /\ UNCHANGED <<isPaused, statusText, hidden>>

\* the visibilitychange listener, for a tab that became hidden or visible
VisibilityChange ==
    /\ UNCHANGED notDash
    /\ hidden' = ~hidden
    /\ IF hidden'
       THEN /\ timers' = ClearInterval(timers, updateIntervalId)
            /\ UNCHANGED <<updateIntervalId, timerCount>>
       ELSE /\ timerCount < MaxTimers
            /\ timers' = SetInterval(timers, UPDATE_INTERVAL)
            /\ updateIntervalId' = Some(timerCount + 1)
            /\ timerCount' = timerCount + 1
    /\ UNCHANGED <<isPaused, statusText, initDone, settingsInterval,
                   UPDATE_INTERVAL>>

\* applySettings with the interval of the dialog
ApplySettings ==
    /\ UNCHANGED notDash
    /\ \E newInterval \in Intervals :
        LET intervalChanged == newInterval # settingsInterval
        IN /\ settingsInterval' = newInterval
           /\ IF intervalChanged
              THEN /\ timerCount < MaxTimers
                   /\ UPDATE_INTERVAL' = newInterval * 1000
                   /\ timers' = SetInterval(ClearInterval(timers, updateIntervalId),
                                            newInterval * 1000)
                   /\ updateIntervalId' = Some(timerCount + 1)
                   /\ timerCount' = timerCount + 1
              ELSE UNCHANGED <<UPDATE_INTERVAL, timers, updateIntervalId,
                               timerCount>>
    /\ UNCHANGED <<isPaused, statusText, hidden, initDone>>

\* togglePause: the pause button or the P key
TogglePause ==
    /\ UNCHANGED notDash
    /\ isPaused' = ~isPaused
    /\ IF isPaused'
       THEN /\ timers' = ClearInterval(timers, updateIntervalId)
            /\ statusText' = "Paused"
            /\ UNCHANGED <<updateIntervalId, timerCount>>
       ELSE /\ timerCount < MaxTimers
            /\ timers' = SetInterval(timers, UPDATE_INTERVAL)
            /\ updateIntervalId' = Some(timerCount + 1)
            /\ timerCount' = timerCount + 1
            /\ statusText' = "Live"
    /\ UNCHANGED <<hidden, initDone, settingsInterval, UPDATE_INTERVAL>>

----------------------------------------------------------------------------
(* ===================== Specifications ===================== *)

\* the state after start-up, with no wireguard section in settings.json
Init ==
    /\ ProbeInit /\ CacheInit /\ SystemInit /\ WireGuardIdle
    /\ ParseIdle /\ DiscoverIdle
    /\ TextIdle /\ ApiInit /\ RateInit /\ NetInit /\ SnapInit /\ LockInit /\ DashInit

\* the state after start-up, with any settings.json
InitWireGuard ==
    /\ ProbeInit /\ CacheInit /\ SystemInit /\ WireGuardInit
    /\ ParseIdle /\ DiscoverIdle
    /\ TextIdle /\ ApiInit /\ RateInit /\ NetInit /\ SnapInit /\ LockInit /\ DashInit

\* the state after start-up, with any status text printed by `wg show`
InitParse ==
    /\ ProbeInit /\ CacheInit /\ SystemInit /\ WireGuardIdle
    /\ ParseInit /\ DiscoverIdle
    /\ TextIdle /\ ApiInit /\ RateInit /\ NetInit /\ SnapInit /\ LockInit /\ DashInit

\* the state after start-up, with the peers' status text and a client list
InitClients ==
    /\ ProbeInit /\ CacheInit /\ SystemInit /\ WireGuardIdle
    /\ ClientsInit /\ DiscoverIdle
    /\ TextIdle /\ ApiInit /\ RateInit /\ NetInit /\ SnapInit /\ LockInit /\ DashInit

\* the state after start-up, with any socket tables on the host
InitDiscover ==
    /\ ProbeInit /\ CacheInit /\ SystemInit /\ WireGuardIdle
    /\ ParseIdle /\ DiscoverInit
    /\ TextIdle /\ ApiInit /\ RateInit /\ NetInit /\ SnapInit /\ LockInit /\ DashInit

NextProbe ==
    \/ CheckService
    \/ Tick
    \/ TimerFire
    \/ HttpResponse
    \/ HttpError
    \/ HttpTimeout
    \/ TcpConnect
    \/ SocketError
    \/ RedisConnect
    \/ RedisData
    \/ DnsAnswer
    \/ InterfaceAccess

SpecProbe == Init /\ [][NextProbe]_vars

\* the CPU delta cache under two overlapping requests and the sweep
NextCache ==
    \/ ClockAdvance
    \/ Sweep
    \/ \E r \in Requests : PollStart(r)
    \/ \E r \in Requests : PollListed(r)
    \/ \E r \in Requests : PollInspected(r)

SpecCache == Init /\ [][NextCache]_vars

\* both delta caches under one request at a time and the sweep
NextRetention ==
    \/ ClockAdvance
    \/ Sweep
    \/ PollStart(FirstRequest)
    \/ PollListed(FirstRequest)
    \/ PollInspected(FirstRequest)
    \/ getHostNetworkStats

SpecRetention == Init /\ [][NextRetention]_vars

\* the container pass of one request at a time, with its statsMap
NextContainers ==
    \/ ClockAdvance
    \/ PollStart(FollowedRequest)
    \/ PollListed(FollowedRequest)
    \/ PollInspected(FollowedRequest)

SpecContainers == Init /\ [][NextContainers]_vars

\* one GET /api/v1/system request
NextSystem ==
    \/ SystemRequest
    \/ StatsCounters
    \/ StatsContainers
    \/ SystemInfo
    \/ WireGuardData
    \/ \E v \in ServicesList : ServiceProbe(v)
    \/ SystemRespond

SpecSystem == Init /\ [][NextSystem]_vars

\* settings updates and VPN polls in any order
NextWireGuard ==
    \/ PutWireGuard
    \/ GetWireGuardData

SpecWireGuard == InitWireGuard /\ [][NextWireGuard]_vars

\* one parse of any status text
NextParse ==
    \/ ParseWgShow

SpecParse == InitParse /\ [][NextParse]_vars

\* the state after start-up, with any text on a handshake line
InitHandshake ==
    /\ ProbeInit /\ CacheInit /\ SystemInit /\ WireGuardIdle
    /\ ParseIdle /\ DiscoverIdle
    /\ HandshakeInit /\ ApiInit /\ RateInit /\ NetInit /\ SnapInit /\ LockInit /\ DashInit

\* one call of parseHandshakeTime on any text
NextHandshake ==
    \/ ParseHandshakeTime

SpecHandshake == InitHandshake /\ [][NextHandshake]_vars

\* the state after start-up, with any text on a transfer line
InitTransfer ==
    /\ ProbeInit /\ CacheInit /\ SystemInit /\ WireGuardIdle
    /\ ParseIdle /\ DiscoverIdle
    /\ TransferInit /\ ApiInit /\ RateInit /\ NetInit /\ SnapInit /\ LockInit /\ DashInit

\* one transfer line of a new peer
NextTransfer ==
    \/ ParseTransfer

SpecTransfer == InitTransfer /\ [][NextTransfer]_vars

\* the API key routes in any order, one settings update at a time
NextApi ==
    \/ PutApiLocked
    \/ PutApiRespond
    \/ GetApiSettings
    \/ RequireApiKey

SpecApi == Init /\ [][NextApi]_vars

\* one client list built from any peers and any pivpn list
NextClients ==
    \/ ParseWgShow

SpecClients == InitClients /\ [][NextClients]_vars

\* one service discovery on any socket tables
NextDiscover ==
    \/ DiscoverServices

SpecDiscover == InitDiscover /\ [][NextDiscover]_vars

\* polls of the host network counters at any clock readings
NextNetwork ==
    \/ NetClock
    \/ HostNetworkPoll

SpecNetwork == Init /\ [][NextNetwork]_vars

\* requests that update the settings file at any times
LockCalls == \E c \in Callers : LockCall(c)
LockStarts == \E c \in Callers : LockStart(c)
FnLoads == \E c \in Callers : FnLoad(c)
FnThrows == \E c \in Callers : FnThrow(c)
FnSaves == \E c \in Callers : FnSave(c)
LockReleases == \E c \in Callers : LockRelease(c)

NextLock ==
    \/ LockCalls
    \/ LockStarts
    \/ FnLoads
    \/ FnThrows
    \/ FnSaves
    \/ LockReleases

SpecLock == Init /\ [][NextLock]_vars

\* the event loop runs every continuation that is ready, and every function
\* terminates; nothing forces a request to arrive
LockFairness ==
    \A c \in Callers :
        /\ WF_vars(LockStart(c))
        /\ WF_vars(FnLoad(c))
        /\ WF_vars(FnThrow(c) \/ FnSave(c))
        /\ WF_vars(LockRelease(c))

SpecLockFair == Init /\ [][NextLock]_vars /\ LockFairness

\* the page from its load on, with any user events
NextDashboard ==
    \/ InitApp
    \/ VisibilityChange
    \/ ApplySettings
    \/ TogglePause

SpecDashboard == Init /\ [][NextDashboard]_vars

\* one snapshot of any inventory
NextSnapshot ==
    \/ SnapshotListed
    \/ SnapshotMapped

SpecSnapshot == Init /\ [][NextSnapshot]_vars

\* requests to /api/services/config at any times
NextRate ==
    \/ RateClock
    \/ RateLimitGet
    \/ RateLimitWrite

SpecRate == Init /\ [][NextRate]_vars

----------------------------------------------------------------------------
(* Claims about the probe, checked under SpecProbe *)

\* C1: the promise returned by checkService always resolves to a
\* HealthResult, for every descriptor and network outcome; it never rejects.
C1_NeverRejects == promise.state # "rejected"

\* C2: once the probe's own 3000 ms timer has fired the probe is no longer
\* pending, and when the timer callback is the first to run on a pending
\* probe the result is offline with no latency.
C2_ResolvedByTimer ==
    /\ timeout = "fired" => promise.state # "pending"
    /\ (firstCb = "timer" /\ promise.state = "resolved") =>
           (promise.value.status = "offline" /\ promise.value.latency = Null)
    /\ (timeout = "fired" /\ phase # "threw") => promise.state = "resolved"

\* C2 witness: a silent peer; the timer fired first and the probe is
\* resolved offline
C2_Witness ==
    /\ kind \in {"http", "tcp", "redis", "dns"}
    /\ timeout = "fired"
    /\ firstCb = "timer"
    /\ promise = [state |-> "resolved", value |-> Offline]

\* C3: the caller receives one result, the one passed by the first callback
\* that ran; later callbacks of the same probe neither change nor re-deliver
\* it.
C3_FinalizedOnce ==
    /\ deliveries <= 1
    /\ (cbCount >= 1 /\ phase # "threw") =>
          /\ promise.state = "resolved"
          /\ promise.value = firstResult
          /\ deliveries = 1
    /\ phase = "threw" => (promise.state = "rejected" /\ deliveries = 0)

\* C3 witness: a second callback has run and passed a different value than
\* the first (the timer fired, then the response arrived)
C3_Witness ==
    /\ cbCount >= 2
    /\ lastArg # firstResult
    /\ promise.state = "resolved"

\* C4: once a probe has resolved, the socket, request or resolver query it
\* opened has been destroyed, cancelled or has completed.
C4_ReleasedOnExit ==
    promise.state = "resolved" => conn \in {"none", "destroyed", "closed"}

\* C10: in every HealthResult latency is null if and only if status is not
\* online.
C10_LatencyNullIffNotOnline ==
    promise.state = "resolved" =>
        (promise.value.latency = Null <=> promise.value.status # "online")

----------------------------------------------------------------------------
(* Claims about the delta caches, checked under SpecCache and SpecRetention *)

\* the cache holds at most one entry per container id
OneEntryPerId ==
    \A id \in ContainerIds : Cardinality({e \in cpuCache : e.id = id}) <= 1

\* C7 (as stated): every recording finds exactly the sample recorded
\* immediately before it for the same id (none for the first recording),
\* whatever was recorded for other ids, and the cache holds at most one
\* entry per id.
C7_FindsPreceding ==
    /\ lastCall.id # "none" => lastCall.foundPreceding
    /\ OneEntryPerId

\* C7 (amended): every recording finds the sample recorded immediately
\* before it for the same id, unless the sweep deleted that entry in
\* between, in which case it finds none; the cache holds at most one entry
\* per id.
C7_FindsPrecedingUnlessSwept ==
    /\ lastCall.id # "none" =>
          IF lastCall.evictedBefore THEN lastCall.foundNone
          ELSE lastCall.foundPreceding
    /\ OneEntryPerId

\* C7 witness: a later recording of one id found its preceding sample while
\* another id has been recorded too
C7_Witness ==
    /\ lastCall.id # "none"
    /\ ~lastCall.foundNone
    /\ lastCall.foundPreceding
    /\ \E other \in ContainerIds \ {lastCall.id} : lastRecorded[other] # Null

\* the age limit of the sweep, on the clock of Date.now()
RetentionMs == staleThreshold \div 1000

\* C8: in every interleaving of the sweep and the polls of two overlapping
\* requests, the cache holds the latest recorded sample of every id until
\* the sweep deletes it, each calculateCpuPercent call reads and writes the
\* entry in one step, and an entry disappears only when its sample is more
\* than 120 s old.
C8_NoLostUpdate ==
    /\ [](\A id \in ContainerIds :
            (lastRecorded[id] # Null /\ ~evicted[id]) =>
                CacheGet(cpuCache, id) = lastRecorded[id])
    /\ [][\A e \in cpuCache :
            CacheGet(cpuCache', e.id) = Null =>
                nowMs * 1000 - e.timeUsec > staleThreshold]_vars
    /\ [][\A id \in ContainerIds :
            lastRecorded'[id] # lastRecorded[id] =>
                /\ lastCall'.id = id
                /\ lastCall'.foundNone = (CacheGet(cpuCache, id) = Null)
                /\ CacheGet(cpuCache', id) = lastRecorded'[id]
                /\ \A other \in ContainerIds \ {id} :
                      CacheGet(cpuCache', other) = CacheGet(cpuCache, other)]_vars

\* C8 witness: the container passes of both requests are in flight, a
\* recording has been made and the sweep has deleted an entry
C8_Witness ==
    /\ \A r \in Requests : pollPc[r] = "inspecting"
    /\ lastCall.id # "none"
    /\ \E id \in ContainerIds : evicted[id]

\* C9: a run of the periodic sweep leaves no last-sample entry, of a
\* container or of a network interface, whose age exceeds the 2-minute
\* retention window.
C9_StaleEntriesSwept ==
    [][Sweep =>
        /\ \A e \in cpuCache' : nowMs' * 1000 - e.timeUsec <= staleThreshold
        /\ networkCache'.lastStats # {} =>
              nowMs' - networkCache'.lastTime <= RetentionMs]_vars

----------------------------------------------------------------------------
(* Claims about the snapshot request, checked under SpecSystem *)

\* the branches of the request that failed
Failed ==
    {b \in Branches : branch[b] = "rejected"}
        \cup (IF parts.containers = "empty" THEN {"containers"} ELSE {})
        \cup (IF parts.wireguard = "error" THEN {"vpn"} ELSE {})

\* C5: when the request is answered after a failure in a single branch (a
\* service probe, the container pass, the VPN pass or a host-level read), the
\* answer is still the snapshot, with the parts of the other branches.
C5_SnapshotDespiteFailure ==
    (response.status # 0 /\ Cardinality(Failed) = 1) =>
        /\ response.status = 200
        /\ response.body.wireguard # "none"
        /\ response.body.containers # "none"

----------------------------------------------------------------------------
(* Claims about the VPN poll, checked under SpecWireGuard *)

\* C6: no wg show command is ever executed with an interface name that fails
\* ^[a-zA-Z0-9_-]{1,15}$, and a poll that finds such a name stored answers
\* with the error and executes nothing.
C6_NoUnsafeExec ==
    /\ \A c \in execLog :
          /\ Len(c.interface) \in 1..IfaceMaxLen
          /\ \A i \in 1..Len(c.interface) : c.interface[i] \in IfaceChars
    /\ (lastPoll.result \notin {"none", "disabled"}
            /\ \E i \in 1..Len(lastPoll.interface) :
                  lastPoll.interface[i] \notin IfaceChars) =>
          (lastPoll.result = "invalid" /\ lastPoll.executed = {})
    /\ (lastPoll.result \notin {"none", "disabled"}
            /\ Len(lastPoll.interface) > IfaceMaxLen) =>
          (lastPoll.result = "invalid" /\ lastPoll.executed = {})

\* C6 witness: a poll found 'wg0; rm -rf /' stored with monitoring enabled
\* and answered with the error
C6_Witness ==
    /\ lastPoll.interface = Injection
    /\ lastPoll.result = "invalid"
    /\ wireguard # Null
    /\ wireguard[1].enabled


\* C11: a descriptor whose checkType is missing or is not one of http, tcp,
\* redis, dns, interface is probed with the tcp check, the default that
\* inferCheckType gives to a service with no explicit type on an unknown port.
C11_UnknownTagProbedAsTcp ==
    (promise.state # "none" /\ service.checkType \notin VALID_CHECK_TYPES) =>
        /\ kind = "tcp"
        /\ kind = inferCheckType(UnknownPort, service.checkType)


----------------------------------------------------------------------------------------------------------------------------------------------------------------------------------------------------------------------------------------------------------------
(* Claims about what a poll leaves behind, checked under SpecRetention *)

\* C17: a poll changes no state that survives to the next poll other than the
\* CPU delta cache map: every other data structure used to build a snapshot
\* is created fresh in that poll.
C17_OnlyCpuCacheSurvives == [][networkCache' = networkCache]_vars

----------------
(* Claims about the order of the sub-tasks of a poll, checked under SpecSystem *)

\* the sub-tasks of one poll that have been started
HostMetricsStarted == branch["stats"] # "idle"
ContainerPassStarted == branch["stats"] \in {"containers", "fulfilled"}
VpnPassStarted == branch["wireguard"] # "idle"
ProbesStarted == \A v \in ServicesList : branch[v] # "idle"

\* the host-metrics reads are still outstanding
HostMetricsPending == branch["stats"] = "counters"

\* C16: within one poll every service probe, the container pass, the VPN pass
\* and the host-metrics reads are all started before any one of them has to
\* complete: no sub-task waits for another sub-task to finish before it starts.
C16_AllStartedTogether ==
    HostMetricsPending =>
        /\ ContainerPassStarted
        /\ VpnPassStarted
        /\ ProbesStarted

----------------
(* Claims about the reported CPU percentage, checked under SpecCache *)

\* p tenths of a percent is (deltaUsage / deltaTime) * 100 / NUM_CPUS rounded
\* to one decimal: no tenth is nearer to the exact quotient
NearestTenth(p, deltaUsage, deltaTime) ==
    LET g == Gcd(deltaUsage, deltaTime)
        num == 1000 * (deltaUsage \div g)
        den == (deltaTime \div g) * NUM_CPUS
        diff == p * den - num
    IN 2 * (IF diff < 0 THEN -diff ELSE diff) <= den

\* a calculateCpuPercent call has just recorded sample b of a container whose
\* sample recorded before was a
Recorded(a, b) == b # a /\ b # Null

\* C13 as stated: for two consecutive recorded samples of one container with
\* usage u1 <= u2 at times t1 < t2 the reported cpuPercent is
\* ((u2-u1)/(t2-t1)) * 100 / coreCount rounded to one decimal, and the first
\* observation of a container gives 0.
C13_PercentOfDelta ==
    [][\A id \in ContainerIds :
        Recorded(lastRecorded[id], lastRecorded'[id]) =>
            IF lastRecorded[id] = Null THEN lastCall'.cpuPercent = 0
            ELSE LET a == lastRecorded[id][1]
                     b == lastRecorded'[id][1]
                 IN (a.usageUsec <= b.usageUsec /\ a.timeUsec < b.timeUsec) =>
                        NearestTenth(lastCall'.cpuPercent,
                                     b.usageUsec - a.usageUsec,
                                     b.timeUsec - a.timeUsec)]_vars

\* C13 amended: the same, unless the sweep deleted the earlier sample in
\* between, in which case the reported cpuPercent is 0.
C13_PercentOfDeltaUnlessSwept ==
    [][\A id \in ContainerIds :
        Recorded(lastRecorded[id], lastRecorded'[id]) =>
            IF lastRecorded[id] = Null \/ evicted[id]
            THEN lastCall'.cpuPercent = 0
            ELSE LET a == lastRecorded[id][1]
                     b == lastRecorded'[id][1]
                 IN (a.usageUsec <= b.usageUsec /\ a.timeUsec < b.timeUsec) =>
                        NearestTenth(lastCall'.cpuPercent,
                                     b.usageUsec - a.usageUsec,
                                     b.timeUsec - a.timeUsec)]_vars

\* a second sample with more usage, one clock step after the first: 15 s of
\* CPU time in 60 s on 4 cores is reported as 6.3 %
C13_Witness ==
    /\ lastCall.id \in ContainerIds
    /\ ~lastCall.foundNone
    /\ lastCall.cpuPercent = 63
    /\ lastRecorded[lastCall.id] # Null
    /\ lastRecorded[lastCall.id][1].usageUsec = UsageUnitUsec

----------------------------------------------------------------------------
(* Claims about the container pass, checked under SpecContainers *)

\* the statsMap has an entry for the container
HasEntry(map, fullId) == \E e \in map : e.shortId = ShortId(fullId)

\* C14: a container whose cgroup accounting file (cpu.stat) cannot be read is
\* omitted from the map returned by getDockerContainerStats: the map has no
\* entry for it, while the collection as a whole still succeeds.
C14_UnreadableCpuStatOmitted ==
    (lastVisit.inspect = "answered" /\ lastVisit.cpuStat = "unreadable") =>
        ~HasEntry(statsMap, lastVisit.id)

\* the followed request runs one iteration of its loop over the containers
LoopIteration ==
    /\ pollPc[FollowedRequest] = "inspecting"
    /\ pollTodo[FollowedRequest] # <<>>
    /\ pollTodo'[FollowedRequest] = Tail(pollTodo[FollowedRequest])

\* the iteration met a failure concerning its container
FailedVisit(v) ==
    \/ v.inspect = "failed"
    \/ v.inspect = "answered" /\ v.process \in {"exited", "unreadable"}
    \/ v.inspect = "answered" /\ v.cpuStat = "unreadable"

\* C15: in getDockerContainerStats a failure concerning one container (its
\* inspect call fails, its process has exited, or its status file is
\* unreadable) never removes or alters the entries of the other containers in
\* the result map; an unreadable process status gives memUsage 0 for that
\* container only.
C15_FailureIsolated ==
    /\ []((lastVisit.inspect = "answered"
            /\ lastVisit.process \in {"exited", "unreadable"}) =>
            \E e \in statsMap :
                e.shortId = ShortId(lastVisit.id) /\ e.memUsage = 0)
    /\ [][(LoopIteration /\ FailedVisit(lastVisit')) =>
            LET own == ShortId(Head(pollTodo[FollowedRequest]))
            IN {e \in statsMap' : e.shortId # own}
                   = {e \in statsMap : e.shortId # own}]_vars

\* the second container's process status was unreadable; the first
\* container's entry, with its memory, is still in the map
C15_Witness ==
    /\ lastVisit.id = "c2"
    /\ lastVisit.inspect = "answered"
    /\ lastVisit.process = "unreadable"
    /\ \E e \in statsMap : e.shortId = ShortId("c1") /\ e.memUsage = MemUsage("running")
    /\ \E e \in statsMap : e.shortId = ShortId("c2") /\ e.memUsage = 0

----------------
(* Claims about the status text parser, checked under SpecParse *)

\* the `peer:` marker lines of a status text
Markers(lines) == {i \in 1..Len(lines) : lines[i].prefix = "peer:"}

\* the k-th marker line in input order
KthMarker(lines, k) ==
    CHOOSE i \in Markers(lines) :
        Cardinality({j \in Markers(lines) : j <= i}) = k

\* the lines between marker i and the next marker (or the end of the input)
Block(lines, i) ==
    {j \in 1..Len(lines) :
        /\ j > i
        /\ \A m \in Markers(lines) : m > i => j < m}

\* the last line of a set of lines, 0 for the empty set
LastOf(S) == IF S = {} THEN 0 ELSE CHOOSE j \in S : \A l \in S : l <= j

\* the record the lines of marker i's own block describe
BlockPeer(lines, i) ==
    LET B == Block(lines, i)
        e == LastOf({j \in B : lines[j].prefix = "endpoint:"})
        h == LastOf({j \in B : lines[j].prefix = "latest handshake:"})
        hp == LastOf({j \in B : /\ lines[j].prefix = "latest handshake:"
                                /\ parseHandshakeTime(lines[j].str) # Null})
        r == LastOf({j \in B : lines[j].prefix = "transfer:" /\ lines[j].rx # Null})
        t == LastOf({j \in B : lines[j].prefix = "transfer:" /\ lines[j].tx # Null})
    IN [publicKey |-> lines[i].text,
        endpoint |-> IF e = 0 THEN Null ELSE Some(lines[e].text),
        lastHandshakeSeconds |->
            IF h = 0 THEN Null ELSE parseHandshakeTime(lines[h].str),
        lastHandshake |->
            IF hp = 0 THEN Null
            ELSE Some(NowSec - parseHandshakeTime(lines[hp].str)[1]),
        transfer |-> [received |-> IF r = 0 THEN 0 ELSE parseBytes(lines[r].rx[1]),
                      sent |-> IF t = 0 THEN 0 ELSE parseBytes(lines[t].tx[1])]]

\* C12: parseWgShow returns exactly one peer record per `peer:` marker line,
\* in input order; each record's endpoint, handshake and transfer fields come
\* only from the lines between its own marker and the next marker or the end
\* of the input; lines before the first marker set no peer field; the last
\* block is always flushed.
C12_OnePeerPerMarker ==
    wgData.called =>
        /\ Len(wgData.peers) = Cardinality(Markers(wgOutput))
        /\ \A k \in 1..Len(wgData.peers) :
              wgData.peers[k] = BlockPeer(wgOutput, KthMarker(wgOutput, k))

\* a parsed text with a detail line before the first marker, a detail line in
\* the first block and a second marker that ends the input
C12_Witness ==
    /\ wgData.called
    /\ Len(wgOutput) = 4
    /\ wgOutput[1].prefix = "endpoint:"
    /\ wgOutput[2].prefix = "peer:"
    /\ wgOutput[3].prefix = "endpoint:"
    /\ wgOutput[4].prefix = "peer:"
    /\ Len(wgData.peers) = 2
    /\ wgData.peers[1].endpoint = Some(wgOutput[3].text)
    /\ wgData.peers[2].endpoint = Null


----------------------------------------------------------------------------
(* Claims about the service discovery, checked under SpecDiscover *)

\* the lines of a scan output, none for a command that failed
LinesOf(output) == IF output = Null THEN <<>> ELSE output[1]

\* the list discoverServices returned
Result == discovered[1]

\* the result has an entry for the port that comes from a line of the protocol
EntryFor(port, protocol) ==
    \E k \in 1..Len(Result) :
        Result[k].port = port /\ Result[k].protocol = protocol

\* a LISTEN line of the TCP table on a wildcard address, not on loopback
WildcardListen(line) ==
    line.state = "LISTEN" /\ line.addr \in {"0.0.0.0", "*", "::"}

\* C18: discoverServices skips a TCP port for loopback only when it is bound
\* solely to loopback: a port <= 32767 that has at least one LISTEN line on a
\* non-loopback wildcard address and that can be identified is in the result,
\* whatever the order of the lines and even when another line binds the same
\* port on 127.0.0.1.
C18_WildcardPortDiscovered ==
    (discovered # Null /\ tcpOutput # Null) =>
        \A i \in 1..Len(LinesOf(tcpOutput)) :
            LET line == LinesOf(tcpOutput)[i]
            IN (/\ WildcardListen(line)
                /\ line.port <= MaxTcpPort
                /\ \E j \in 1..Len(LinesOf(tcpOutput)) :
                      LET other == LinesOf(tcpOutput)[j]
                      IN /\ WildcardListen(other)
                         /\ other.port = line.port
                         /\ Identify(other.port, other.process) # Null)
               => \E k \in 1..Len(Result) : Result[k].port = line.port

\* the ports of the UDP lines the scan reads
UdpPorts ==
    {LinesOf(udpOutput)[i].port : i \in
        {j \in 1..Len(LinesOf(udpOutput)) :
            /\ LinesOf(udpOutput)[j].state = "UNCONN"
            /\ UdpAddrMatch(LinesOf(udpOutput)[j]) # Null}}

\* C19: a UDP line adds an entry if and only if its port is in the fixed UDP
\* table (500, 1194, 1723, 4500, 51820) and no entry for that port was
\* already discovered via TCP in the same scan.
C19_UdpEntryIffKnownAndNew ==
    (discovered # Null /\ tcpOutput # Null) =>
        \A port \in UdpPorts :
            EntryFor(port, "udp") <=>
                (port \in {500, 1194, 1723, 4500, 51820} /\ ~EntryFor(port, "tcp"))

\* C20: for any TCP and UDP socket-table text the list returned by
\* discoverServices is strictly ascending by port (sorted, with no two
\* entries sharing a port), and no entry that comes from a TCP line has a
\* port above 32767.
C20_AscendingPorts ==
    discovered # Null =>
        /\ \A k \in 1..(Len(Result) - 1) : Result[k].port < Result[k + 1].port
        /\ \A k \in 1..Len(Result) :
              Result[k].protocol = "tcp" => Result[k].port <= MaxTcpPort

\* a scan of TCP lines that are not in port order, one of them above 32767,
\* and of a known UDP port: three entries in ascending order
C20_Witness ==
    /\ discovered # Null
    /\ tcpOutput # Null /\ udpOutput # Null
    /\ Len(LinesOf(tcpOutput)) = 3
    /\ LinesOf(tcpOutput)[1].port = 8096
    /\ LinesOf(tcpOutput)[2].port = 40000
    /\ LinesOf(tcpOutput)[3] = SocketLine("LISTEN", "0.0.0.0", 22, "sshd")
    /\ Len(Result) = 3
    /\ Result[1].port = 22
    /\ Result[3].port = 51820


\* a TCP line the scan reads a port from
TcpRead(line) == line.state = "LISTEN" /\ TcpAddrMatch(line) # Null

\* the i-th TCP line is accepted: it is read, its port is at most 32767 and
\* on no earlier read line, and it is not bound to loopback
Accepted(i) ==
    LET lines == LinesOf(tcpOutput)
    IN /\ TcpRead(lines[i])
       /\ lines[i].port <= MaxTcpPort
       /\ \A j \in 1..(i - 1) :
             ~(TcpRead(lines[j]) /\ lines[j].port = lines[i].port)
       /\ lines[i].addr # "127.0.0.1"

\* the name and checkType the stated precedence gives a line, Null for none
Precedence(line) ==
    IF line.process \in DOMAIN KNOWN_PROCESSES
    THEN Some([name |-> KNOWN_PROCESSES[line.process].name,
               checkType |-> KNOWN_PROCESSES[line.process].checkType])
    ELSE IF line.port \in DOMAIN KNOWN_SERVICES
    THEN Some([name |-> KNOWN_SERVICES[line.port].name,
               checkType |-> KNOWN_SERVICES[line.port].checkType])
    ELSE IF line.port < 10000
    THEN Some([name |-> IF line.process # "" THEN line.process
                        ELSE "Port " \o ToString(line.port),
               checkType |-> "tcp"])
    ELSE Null

\* C21: for each accepted TCP line discoverServices identifies the service by
\* precedence: the known-process table when the owning process name is in
\* it, else the known-port table, else for ports below 10000 a generic entry
\* named after the process or "Port <n>" with checkType tcp; a port >= 10000
\* with no table match yields no entry.
C21_IdentifiedByPrecedence ==
    (discovered # Null /\ tcpOutput # Null) =>
        \A i \in 1..Len(LinesOf(tcpOutput)) :
            Accepted(i) =>
                LET line == LinesOf(tcpOutput)[i]
                    expected == Precedence(line)
                IN IF expected = Null THEN ~EntryFor(line.port, "tcp")
                   ELSE \E k \in 1..Len(Result) :
                           /\ Result[k].port = line.port
                           /\ Result[k].protocol = "tcp"
                           /\ Result[k].name = expected[1].name
                           /\ Result[k].checkType = expected[1].checkType


\* C22: discoverServices never raises: when the TCP scan command fails it
\* returns an empty list, and when only the optional UDP scan command fails
\* it still returns the services discovered via TCP.
C22_ScanFailureContained ==
    discovered # Null =>
        /\ tcpOutput = Null => Result = <<>>
        /\ (tcpOutput # Null /\ udpOutput = Null) =>
              /\ \A k \in 1..Len(Result) : Result[k].protocol = "tcp"
              /\ {Result[k].port : k \in 1..Len(Result)} =
                    {LinesOf(tcpOutput)[i].port : i \in
                        {j \in 1..Len(LinesOf(tcpOutput)) :
                            /\ Accepted(j)
                            /\ Identify(LinesOf(tcpOutput)[j].port,
                                        LinesOf(tcpOutput)[j].process) # Null}}

\* the UDP scan failed and the TCP scan found two services
C22_Witness ==
    /\ discovered # Null
    /\ tcpOutput # Null
    /\ udpOutput = Null
    /\ Len(Result) = 2

\* the first callback to settle the probe was the peer's reply
RepliedInTime(cb) == received # Null /\ firstCb = cb

\* C23: an http probe resolves online exactly when a response with status
\* code below 500 arrives before the timeout, error exactly when a response
\* with status code 500 or above arrives before the timeout, and offline on
\* connection failure or timeout; the statusCode of the response is reported
\* whenever the response settled the probe.
C23_HttpStatusClassified ==
    (kind = "http" /\ promise.state = "resolved") =>
        LET inTime == RepliedInTime("response")
            value == promise.value
        IN /\ value.status = "online" <=>
                (inTime /\ received[1].statusCode < 500)
           /\ value.status = "error" <=>
                (inTime /\ received[1].statusCode >= 500)
           /\ value.status = "offline" <=> ~inTime
           /\ firstCb \in {"error", "timeout", "timer"} => value = Offline
           /\ inTime => value.statusCode = Some(received[1].statusCode)

\* a 404 answered in time: the probe is online and reports the code
C23_Witness ==
    /\ kind = "http"
    /\ promise.state = "resolved"
    /\ firstCb = "response"
    /\ received = Some(Reply(404, ""))
    /\ promise.value.status = "online"
    /\ promise.value.statusCode = Some(404)

\* C24: a redis probe sends PING after connecting and resolves online only
\* if the reply contains PONG; any other reply gives error and a connection
\* failure gives offline.
C24_RedisPingPong ==
    /\ (kind = "redis" /\ received # Null) => phase = "replied"
    /\ (kind = "redis" /\ phase = "connecting") => received = Null
    /\ (kind = "redis" /\ promise.state = "resolved") =>
        LET inTime == RepliedInTime("data")
            value == promise.value
        IN /\ value.status = "online" <=>
                (inTime /\ received[1].text = "+PONG")
           /\ (inTime /\ received[1].text # "+PONG") =>
                value.status = "error"
           /\ firstCb = "error" => value = Offline

\* a peer that is not redis answered the PING first: the probe is error
C24_Witness ==
    /\ kind = "redis"
    /\ promise.state = "resolved"
    /\ firstCb = "data"
    /\ received = Some(Reply(0, "SSH-2.0-OpenSSH_9.2"))
    /\ promise.value.status = "error"

----------------------------------------------------------------------------
(* Claims about the WireGuard client list, checked under SpecClients *)

\* the client list getWireGuardData built
ClientList == clients[1]

\* the handshake age the block of marker i states: that of its last handshake
\* line, Null for a block with none
StatedAge(lines, i) ==
    LET h == LastOf({j \in Block(lines, i) :
                        lines[j].prefix = "latest handshake:"})
    IN IF h = 0 THEN Null ELSE parseHandshakeTime(lines[h].str)

\* how many clients have the public key and the online flag
ClientCount(key, online) ==
    Cardinality({k \in 1..Len(ClientList) :
                    /\ ClientList[k].publicKey = key
                    /\ ClientList[k].online = online})

\* C25: a WireGuard peer is reported online if and only if its handshake age
\* is known (not null) and strictly less than 180 seconds; a peer with no
\* handshake line, an unparsable handshake text, or an age of 180 s or more
\* is offline.
C25_OnlineIffRecentHandshake ==
    clients # Null =>
        \A key \in {"keyA", "keyB", "keyC"}, online \in BOOLEAN :
            ClientCount(key, online) =
                Cardinality({m \in Markers(wgOutput) :
                    /\ wgOutput[m].text = key
                    /\ online = (/\ StatedAge(wgOutput, m) # Null
                                 /\ StatedAge(wgOutput, m)[1] < 180)})

\* three peers: one 179 s old, one exactly 180 s old, one with a handshake
\* text that has no phrase
C25_Witness ==
    /\ clients # Null
    /\ Len(wgOutput) = 6
    /\ wgOutput[1].text = "keyA" /\ wgOutput[2].str = TwoMinutesFiftyNine
    /\ wgOutput[3].text = "keyB" /\ wgOutput[4].str = ThreeMinutes
    /\ wgOutput[5].text = "keyC" /\ wgOutput[6].str = NoPhrase
    /\ ClientCount("keyA", TRUE) = 1
    /\ ClientCount("keyB", FALSE) = 1
    /\ ClientCount("keyC", FALSE) = 1

\* C26: the client list returned by getWireGuardData contains every parsed
\* peer exactly once and is ordered with all online peers before all offline
\* peers and, within each group, ascending by name; it is built from the
\* peers of the whole status text.
C26_OnlineFirstThenByName ==
    clients # Null =>
        /\ wgData.called
        /\ Len(ClientList) = Cardinality(Markers(wgOutput))
        /\ \A key \in {"keyA", "keyB", "keyC"} :
              Cardinality({k \in 1..Len(ClientList) :
                              ClientList[k].publicKey = key}) =
              Cardinality({k \in 1..Len(wgData.peers) :
                              wgData.peers[k].publicKey = key})
        /\ \A i, j \in 1..Len(ClientList) :
              i < j =>
                /\ ClientList[j].online => ClientList[i].online
                /\ ClientList[i].online = ClientList[j].online =>
                      NameRank(ClientList[i].name) <= NameRank(ClientList[j].name)

\* the offline peer zed comes first in the status text and last in the list,
\* after the online peers alice and unknown
C26_Witness ==
    /\ clients # Null
    /\ Len(wgData.peers) = 3
    /\ wgData.peers[1].publicKey = "keyA"
    /\ wgData.peers[2].publicKey = "keyC"
    /\ wgData.peers[3].publicKey = "keyB"
    /\ ClientList[1].name = "alice" /\ ClientList[1].online
    /\ ClientList[2].name = "unknown" /\ ClientList[2].online
    /\ ClientList[3].name = "zed" /\ ~ClientList[3].online

----------------------------------------------------------------------------
(* Claims about the handshake text, checked under SpecHandshake *)

\* the seconds one word of a text stands for, by its unit whatever its case
\* and number; -1 for a word that is no phrase
WordSeconds(w) ==
    CASE w.unit \in {"seconds", "SECOND"} -> w.n
      [] w.unit \in {"minutes"} -> w.n * 60
      [] w.unit \in {"hour"} -> w.n * 3600
      [] w.unit \in {"Days", "day"} -> w.n * 86400
      [] OTHER -> -1

\* the sum over the phrases among the first k words
RECURSIVE SumOfPhrases(_, _)
SumOfPhrases(str, k) ==
    IF k = 0 THEN 0
    ELSE SumOfPhrases(str, k - 1)
         + (IF WordSeconds(str[k]) >= 0 THEN WordSeconds(str[k]) ELSE 0)

\* C27: parseHandshakeTime returns the sum over every "<n> second|minute|
\* hour|day[s]" phrase in the text (case-insensitive) of n times 1, 60, 3600
\* or 86400 respectively ("3 minutes, 20 seconds ago" gives 200, "1 hour
\* ago" gives 3600), and returns null for empty text or text with no such
\* phrase.
C27_SumOfPhraseSeconds ==
    totalSeconds.called =>
        /\ totalSeconds.value =
              IF \E k \in 1..Len(handshakeStr) : WordSeconds(handshakeStr[k]) >= 0
              THEN Some(SumOfPhrases(handshakeStr, Len(handshakeStr)))
              ELSE Null
        /\ handshakeStr = <<Word(3, "minutes"), Word(20, "seconds"), Word(0, "ago")>>
              => totalSeconds.value = Some(200)
        /\ handshakeStr = <<Word(1, "hour"), Word(0, "ago")>>
              => totalSeconds.value = Some(3600)
        /\ handshakeStr = <<>> => totalSeconds.value = Null

\* "1 Days, 3 minutes, 20 SECOND" has been summed to 86600
C27_Witness ==
    /\ totalSeconds.called
    /\ handshakeStr = <<Word(1, "Days"), Word(3, "minutes"), Word(20, "SECOND")>>
    /\ totalSeconds.value = Some(86600)

----------------------------------------------------------------------------
(* Claims about the transfer text, checked under SpecTransfer *)

\* the multiplier of a unit, whatever its case
Multiplier(unit) ==
    CASE unit = "B" -> 1
      [] unit = "KiB" -> 1024
      [] unit \in {"MiB", "mib"} -> 1048576
      [] unit = "GiB" -> 1073741824

\* bytes is the clause's value times the unit's multiplier, rounded to an
\* integer (halves up)
IsRounded(bytes, c) ==
    IF c.unit = "GiB"
    THEN c.hundredths % 50 = 0 /\ bytes = (c.hundredths \div 50) * 536870912
    ELSE /\ 100 * bytes - 50 < c.hundredths * Multiplier(c.unit) + 1
         /\ c.hundredths * Multiplier(c.unit) < 100 * bytes + 50

\* the count a clause gives: 0 for a missing clause
CountOf(bytes, clause) ==
    IF clause = Null THEN bytes = 0 ELSE IsRounded(bytes, clause[1])

\* the text "3.65 MiB received, 17.21 MiB sent"
ExampleTransfer ==
    transferStr = Line("transfer:", "", <<>>, Some(Clause(365, "MiB")),
                       Some(Clause(1721, "MiB")))

\* x is y within the rounding to an integer
About(x, y) == x - y \in {-1, 0, 1}

----------------------------------------------------------------------------
(* Claims about the API key, checked under SpecApi *)

\* the latest response is that of the route
Answered(route) == apiResponse # Null /\ apiResponse.route = route

\* C29: GET /api/v1/system is protected by the API key: in every reachable
\* settings state (after any sequence of enable, disable, generateKey and
\* clearKey updates), a request receives system data only if API access is
\* enabled and the request carries a key whose SHA-256 hash equals the
\* stored keyHash; every other request is refused with 401 or 403.
C29_SystemDataOnlyWithKey ==
    Answered("GET /api/v1/system") =>
        LET keyMatches ==
                /\ apiResponse.config.enabled
                /\ apiResponse.providedKey # Null
                /\ hashApiKey(apiResponse.providedKey[1]) =
                      apiResponse.config.keyHash
        IN /\ apiResponse.data => keyMatches
           /\ ~keyMatches => apiResponse.status \in {401, 403}

\* the hashes of the keys generated so far
GeneratedHashes == {hashApiKey(generateApiKey(n)) : n \in 1..generated}

\* C30: the plain API key is shown only once: it appears only in the response
\* to the PUT /api/settings/api request that generated it; after any
\* sequence of requests no other response contains it and the stored
\* settings hold only its SHA-256 hash, never the plain key.
C30_PlainKeyShownOnce ==
    /\ \A k \in DOMAIN shown : shown[k] <= 1
    /\ (apiResponse # Null /\ apiResponse.key # Null) =>
          /\ apiResponse.route = "PUT /api/settings/api"
          /\ apiResponse.status = 200
          /\ apiResponse.generateKey
          /\ shown[apiResponse.key[1]] = 1
    /\ LoadApi.keyHash \in {Null} \cup GeneratedHashes
    /\ defaultApi.keyHash \in {Null} \cup GeneratedHashes
    /\ api # Null => DOMAIN api[1] = {"enabled", "keyHash"}

\* the first key has been shown by the PUT that generated it, a second PUT
\* has been answered without it, and the settings still hold its hash
C30_Witness ==
    /\ Answered("PUT /api/settings/api")
    /\ apiResponse.status = 200
    /\ ~apiResponse.generateKey
    /\ apiResponse.key = Null
    /\ apiResponse.hasKey
    /\ shown[1] = 1
    /\ api = Some(ApiConfig(TRUE, hashApiKey(generateApiKey(1))))

----------------------------------------------------------------------------
(* Claims about the rate limit, checked under SpecRate *)

\* how many requests of the client went on to the handlers at the times
PassedIn(ip, times) == LogLength(passedAt[ip], times)

\* C31: for each client IP, in any 60-second window at most 100 non-GET
\* requests to /api/services/config are passed on to the handlers; every
\* further one in that window is answered 429 without reaching a handler,
\* and GET requests are neither limited nor counted.
C31_AtMostHundredPerWindow ==
    /\ \A ip \in ClientIps, start \in RateTimes :
          /\ PassedIn(ip, {t \in RateTimes : start <= t /\ t < start + 60000})
                <= 100
          /\ PassedIn(ip, {t \in RateTimes : start - 60000 < t /\ t <= start})
                <= 100
    /\ \A ip \in ClientIps :
          /\ LogLength(rateLimit[ip], RateTimes) <= made[ip]
          /\ PassedIn(ip, RateTimes) <= made[ip]
    /\ (rateResponse # Null /\ rateResponse[1].method = "GET") =>
          rateResponse[1].status = 200
    /\ (rateResponse # Null /\ rateResponse[1].status # 200) =>
          /\ rateResponse[1].status = 429
          /\ \E ip \in ClientIps : PassedIn(ip, RateTimes) < made[ip]

\* the first client had 60 requests passed at 0 and 40 at 30 s, its 101st
\* request was answered 429, and at 60 s it has been passed again
C31_Witness ==
    /\ passedAt["ipA"][0] = 60
    /\ passedAt["ipA"][30000] = 40
    /\ rateLimit["ipA"][30000] = 41
    /\ rateNow = 60000
    /\ passedAt["ipA"][60000] = 1
    /\ passedAt["ipB"][30000] = 1

----------------------------------------------------------------------------
(* Claims about the host network rates, checked under SpecNetwork *)

\* the entries of the list the latest poll returned
Reported == IF netStats = Null THEN {} ELSE DOMAIN netStats[1]

\* C32: for every network interface, the reported rxSec/txSec equals the
\* byte-counter difference to that interface's previous sample divided by the
\* time elapsed since that same previous sample was taken (rounded to an
\* integer), for any sequence of polls, including an interface that is
\* absent from some polls and reappears later.
C32_RateOverOwnInterval ==
    \A i \in Reported :
        LET s == netStats[1][i]
            p == s.previous
        IN (/\ p # Null
            /\ s.at > p[1].at
            /\ s.rxBytes >= p[1].rxBytes) =>
              s.rxSec = Finite(RoundHalfUp((s.rxBytes - p[1].rxBytes) * 1000,
                                           s.at - p[1].at))

\* C39: every rate reported by the collectors is a finite, non-negative
\* number: interface rxSec/txSec are never negative, infinite or NaN, for any
\* sequence of polls, including two polls at the same clock reading, a clock
\* that goes backwards, and a counter that resets to a lower value.
C39_RatesFiniteNonNegative ==
    \A i \in Reported :
        /\ netStats[1][i].rxSec.kind = "finite"
        /\ netStats[1][i].rxSec.value >= 0
        /\ netStats[1][i].txSec.kind = "finite"
        /\ netStats[1][i].txSec.value >= 0

----------------------------------------------------------------------------
(* Claims about the container snapshot, checked under SpecSnapshot *)

\* C33: each container in the snapshot is given the CPU and memory stats
\* computed from that same container's own process and cgroup, for every
\* inventory, including one in which two containers' identifiers share the
\* same first 12 characters.
C33_OwnStats ==
    containers # Null =>
        \A id \in DOMAIN containers[1] :
            ownStats[id] # Null => containers[1][id] = ownStats[id][1]

----------------------------------------------------------------------------
(* Claims about the file lock, checked under SpecLock and SpecLockFair *)

Executing == {c \in Callers : lockPc[c] \in {"running", "loaded"}}

CalledBefore(c) ==
    {callOrder[k] : k \in {j \in 1..Len(callOrder) :
                              \E i \in j + 1..Len(callOrder) : callOrder[i] = c}}

\* C34: at most one caller's function is executing at any time, the functions
\* start in the order in which withFileLock was called, and a function's
\* read sees the update of every earlier caller whose function saved (no
\* lost update): the file always holds exactly the saved updates.
C34_MutualExclusionInCallOrder ==
    /\ Cardinality(Executing) <= 1
    /\ Len(startOrder) <= Len(callOrder)
    /\ startOrder = SubSeq(callOrder, 1, Len(startOrder))
    /\ \A c \in Callers :
        lockPc[c] \in {"running", "loaded", "settled", "done"} =>
            \A d \in CalledBefore(c) : lockPc[d] = "done"
    /\ \A c \in Callers :
        lockPc[c] = "loaded" =>
            loadedCopy[c] = {d \in CalledBefore(c) : ~fnThrew[d]}
    /\ settingsFile =
        {c \in Callers : lockPc[c] \in {"settled", "done"} /\ ~fnThrew[c]}

\* three requests called in the order r2, r3, r1; r2 and r3 have saved and
\* r1 has read both updates
C34_Witness ==
    /\ callOrder = <<"r2", "r3", "r1">>
    /\ lockPc["r1"] = "loaded"
    /\ loadedCopy["r1"] = {"r2", "r3"}

\* C35: when a function run under withFileLock throws or rejects, the lock
\* is still released and only that caller's promise rejects; every caller
\* queued behind it eventually runs its function.
C35_ReleasedOnThrow ==
    /\ [](\A c \in Callers :
            /\ lockPc[c] = "done" => released[c]
            /\ lockResult[c] = "rejected" => fnThrew[c]
            /\ lockResult[c] = "resolved" => ~fnThrew[c])
    /\ \A c \in Callers :
        (lockPc[c] = "waiting") ~> (lockPc[c] \in {"running", "loaded", "settled", "done"})

\* r2 was queued behind r1, r1's function threw, and r2's function ran and
\* saved
C35_Witness ==
    /\ callOrder = <<"r1", "r2", "r3">>
    /\ lockResult["r1"] = "rejected"
    /\ lockResult["r2"] = "resolved"
    /\ settingsFile = {"r2"}
    /\ lockPc["r3"] = "waiting"

----------------------------------------------------------------------------
(* Claims about failed configuration writes, checked under SpecApi *)

\* C36: a configuration write request that ends with an error response
\* leaves the settings seen by every later read unchanged, in every state of
\* the settings file; the in-memory DEFAULT_SETTINGS values are never
\* modified by a request.
C36_ErrorLeavesSettings ==
    [][(putApi = Null /\ putApi' # Null /\ ~putApi'[1].saved) =>
           (LoadApi' = LoadApi /\ defaultApi' = defaultApi)]_vars

----------------------------------------------------------------------------
(* Claims about the dashboard page timers, checked under SpecDashboard *)

\* C37: while the dashboard is paused (isPaused is true and the status shows
\* 'Paused'), no periodic updateDashboard timer is active, after any sequence
\* of pause toggles, tab visibility changes and settings saves that change
\* the interval.
C37_NoTimerWhilePaused ==
    (isPaused /\ statusText = "Paused") => timers = {}

\* C38: at every moment at most one periodic updateDashboard interval timer
\* is active and updateIntervalId refers to it; no timer is left running
\* without being referenced.
C38_OneReferencedTimer ==
    /\ Cardinality(timers) <= 1
    /\ \A t \in timers : updateIntervalId = Some(t.id)

----------------------------------------------------------------------------
(* Claims about stored interface names, checked under SpecWireGuard *)

\* C40: every interface name that PUT /api/settings/wireguard accepts and
\* stores also passes the validation in getWireGuardData, so a VPN poll after
\* an accepted update never answers 'Invalid WireGuard interface name'.
C40_StoredNamePassesPoll ==
    [][(WgConfig(wireguard').interface # WgConfig(wireguard).interface) =>
           ValidIface(WgConfig(wireguard').interface)]_vars

====
